---- MODULE Spec2Model ----
(***************************************************************************)
(* knock-mq: the queue engine (Queue, CircuitBreaker), the in-memory       *)
(* storage (InMemoryStorage) and the poll-dispatch loop (QueueInstance).   *)
(*                                                                         *)
(* Item objects live on a heap (objs) because the storage map, the         *)
(* in-flight entries and every processItem run hold references to the same *)
(* mutable object.  Every `await` of the code is a point where another     *)
(* task may run, so each asynchronous handler is cut into one action per   *)
(* synchronous section.                                                    *)
(***************************************************************************)
EXTENDS Integers, Sequences, FiniteSets, TLC

\* ------------------------------------------------------------------ bounds
MaxIds == 3          \* distinct item ids
MaxObjs == 3         \* item objects built, storage alone
MaxEngineObjs == 1   \* item objects built, engine running
MaxRuns == 2         \* processItem runs, calls not awaited
MaxSerialRuns == 7   \* processItem runs, each call awaited before the next
MaxTicks == 2        \* clock advances
MaxRetriesCfg == 2   \* largest config.maxRetries drawn
MaxConcurrentCfg == 1 \* largest config.maxConcurrent drawn
MaxData == 2         \* distinct payloads
MaxOnce == 3         \* enqueueOnce calls recorded
MaxOnceIds == 2      \* ids the enqueueOnce calls compete for
MaxAttempts == 10    \* largest attempts value the backoff is computed for
MaxBaseUnits == 10   \* largest backoffBaseMs drawn, in units of 100 ms
MaxBreakerRuns == 8  \* processItem runs while the breaker is exercised
MaxElapses == 3      \* half cooldowns the clock advances by

\* ------------------------------------------------------- program constants
PollIntervalMs == 1000
BackoffCapMs == 30000
BreakerThreshold == 5
BreakerTimeoutMs == 30000

Ids == 1..MaxIds
Datas == 1..MaxData
Priorities == {"high", "normal", "low"}
Statuses == {"queued", "processing", "delivered", "failed", "undeliverable", "cancelled"}
EventKinds == {"itemDelivered", "itemRetryScheduled", "itemUndeliverable", "itemTimeout", "itemStuck"}

\* an optional Date that is not set; an optional string that is not set
None == -1
NoError == "undefined"
MaxRetriesReason == "max_retries"
CircuitOpenMessage == "Circuit breaker is open"
ProcessorMessage == "processor error"

\* the clock advances in steps of one poll interval
TickMs == PollIntervalMs
MaxTime == MaxTicks * TickMs

VARIABLES
  now,            \* Date.now()
  config,         \* QueueConfig: maxRetries, backoffBaseMs, maxConcurrent, timeoutMs
  objs,           \* heap of QueueItem objects, in allocation order
  items,          \* InMemoryStorage.items: object references in Map insertion order
  storagePaused,  \* InMemoryStorage.paused
  paused,         \* Queue.paused
  processing,     \* Queue.processing: id -> run that registered the entry, 0 if absent
  runs,           \* processItem runs that passed the in-flight check
  breaker,        \* CircuitBreaker: failures, lastFailure
  stats,          \* Queue.stats
  emitted,        \* events raised, counted per item id and kind
  tracked,        \* monitoring.trackError calls
  loop,           \* QueueInstance: running flag and the poll loop task
  sweep,          \* the cleanupStuckItems task
  once,           \* enqueueOnce calls and what each returned
  ret             \* the call that has just returned, and its result

vars == <<now, config, objs, items, storagePaused, paused, processing, runs,
          breaker, stats, emitted, tracked, loop, sweep, once, ret>>

NoRet == [op |-> "none"]

\* ------------------------------------------------------------ item objects

\* QueueItem literal built by Queue.enqueue
NewItem(id, priority, data, queuedAt, expiresAt) ==
  [id |-> id, priority |-> priority, data |-> data,
   attempts |-> 0, status |-> "queued", queuedAt |-> queuedAt,
   lastAttemptAt |-> None, nextAttemptAt |-> None,
   error |-> NoError, expiresAt |-> expiresAt]

ObjRefs == 1..Len(objs)

\* ------------------------------------------------------- InMemoryStorage

RECURSIVE IndexOfId(_, _, _)
\* position in the map of the entry whose key is id, 0 if there is none
IndexOfId(os, its, id) ==
  IF its = <<>> THEN 0
  ELSE IF os[its[Len(its)]].id = id THEN Len(its)
  ELSE IndexOfId(os, SubSeq(its, 1, Len(its) - 1), id)

\* this.items.has(id)
Has(os, its, id) == IndexOfId(os, its, id) # 0

\* this.items.get(id): the object reference, 0 if absent
Get(os, its, id) ==
  LET i == IndexOfId(os, its, id) IN IF i = 0 THEN 0 ELSE its[i]

\* this.items.set(id, ref): an existing key keeps its place in the order
MapSet(os, its, id, ref) ==
  LET i == IndexOfId(os, its, id)
  IN IF i = 0 THEN Append(its, ref) ELSE [its EXCEPT ![i] = ref]

\* updateStatus(id, status): sets the status of the stored object, if any
StUpdateStatus(os, its, id, status) ==
  LET ref == Get(os, its, id)
  IN IF ref = 0 THEN os ELSE [os EXCEPT ![ref].status = status]

\* complete(id, success): marks the stored object delivered, whatever success is
StComplete(os, its, id, success) ==
  LET ref == Get(os, its, id)
  IN IF ref = 0 THEN os ELSE [os EXCEPT ![ref].status = "delivered"]

\* moveToDeadLetter(id, reason)
StMoveToDeadLetter(os, its, id, reason) ==
  LET ref == Get(os, its, id)
  IN IF ref = 0 THEN os
     ELSE [os EXCEPT ![ref].status = "undeliverable", ![ref].error = reason]

priorityScore(priority) ==
  IF priority = "high" THEN 1 ELSE IF priority = "normal" THEN 2 ELSE 3

\* the filter of dequeue with an expiry that still admits expiresAt = now
EligibleAtExpiry(o, t) ==
  /\ o.status = "queued"
  /\ (o.nextAttemptAt = None \/ o.nextAttemptAt <= t)
  /\ (o.expiresAt = None \/ o.expiresAt >= t)

\* the filter of dequeue without the retry gate
EligibleIgnoringRetryGate(o, t) ==
  /\ o.status = "queued"
  /\ (o.expiresAt = None \/ o.expiresAt > t)

\* the filter of dequeue
Eligible(o, t) ==
  /\ o.status = "queued"
  /\ (o.nextAttemptAt = None \/ o.nextAttemptAt <= t)
  /\ (o.expiresAt = None \/ o.expiresAt > t)

\* the comparator of dequeue's sort with the newest item first in a tier
CompareNewestFirst(a, b) ==
  LET pri == priorityScore(a.priority) - priorityScore(b.priority)
  IN IF pri # 0 THEN pri ELSE b.queuedAt - a.queuedAt

\* the comparator of dequeue's sort: negative when a sorts before b
Compare(a, b) ==
  LET pri == priorityScore(a.priority) - priorityScore(b.priority)
  IN IF pri # 0 THEN pri ELSE a.queuedAt - b.queuedAt

RECURSIVE FilterRefs(_, _, _)
\* Array.prototype.filter over the map's values, keeping the order
FilterRefs(os, its, t) ==
  IF its = <<>> THEN <<>>
  ELSE LET rest == FilterRefs(os, Tail(its), t)
       IN IF Eligible(os[Head(its)], t) THEN <<Head(its)>> \o rest ELSE rest

RECURSIVE InsertSorted(_, _, _)
\* stable insertion of ref x behind every element that does not sort after it
InsertSorted(os, sorted, x) ==
  IF sorted = <<>> THEN <<x>>
  ELSE IF Compare(os[x], os[Head(sorted)]) < 0 THEN <<x>> \o sorted
  ELSE <<Head(sorted)>> \o InsertSorted(os, Tail(sorted), x)

RECURSIVE SortRefs(_, _)
\* Array.prototype.sort (stable) with dequeue's comparator
SortRefs(os, refs) ==
  IF refs = <<>> THEN <<>>
  ELSE InsertSorted(os, SortRefs(os, SubSeq(refs, 1, Len(refs) - 1)), refs[Len(refs)])

Slice(s, limit) == SubSeq(s, 1, IF limit < Len(s) THEN limit ELSE Len(s))

\* dequeue(limit) at time t: references of the returned items, in order
StDequeue(os, its, limit, t) == Slice(SortRefs(os, FilterRefs(os, its, t)), limit)

RECURSIVE DeadRefs(_, _)
DeadRefs(os, its) ==
  IF its = <<>> THEN <<>>
  ELSE LET rest == DeadRefs(os, Tail(its))
       IN IF os[Head(its)].status = "undeliverable" THEN <<Head(its)>> \o rest ELSE rest

\* getDeadLetterItems(limit)
StGetDeadLetterItems(os, its, limit) == Slice(DeadRefs(os, its), limit)

RECURSIVE StuckRefs(_, _, _)
\* findStuckProcessing(since)
StuckRefs(os, its, since) ==
  IF its = <<>> THEN <<>>
  ELSE LET rest == StuckRefs(os, Tail(its), since)
           o == os[Head(its)]
       IN IF o.status = "processing" /\ o.lastAttemptAt # None /\ o.lastAttemptAt < since
          THEN <<Head(its)>> \o rest ELSE rest

\* ----------------------------------------------------------- CircuitBreaker

\* isOpen that needs more failures than the threshold
isOpenAbove(b, t) == b.failures > BreakerThreshold /\ t - b.lastFailure < BreakerTimeoutMs

\* CircuitBreaker.isOpen
isOpen(b, t) == b.failures >= BreakerThreshold /\ t - b.lastFailure < BreakerTimeoutMs

\* execute: fn resolved
BreakerSuccess(b) == [b EXCEPT !.failures = 0]

\* execute that counts a failure without recording its time
BreakerFailureUntimed(b, t) == [b EXCEPT !.failures = b.failures + 1]

\* execute: fn rejected
BreakerFailure(b, t) == [b EXCEPT !.failures = b.failures + 1, !.lastFailure = t]

\* ------------------------------------------------------------------- Queue

Min(a, b) == IF a < b THEN a ELSE b

\* calculateBackoff with the exponent taken from attempt itself
calculateBackoffFromAttempt(backoffBaseMs, attempt) ==
  Min(backoffBaseMs * (2 ^ attempt), BackoffCapMs)

\* Queue.calculateBackoff, for attempt >= 1
calculateBackoff(backoffBaseMs, attempt) ==
  Min(backoffBaseMs * (2 ^ (attempt - 1)), BackoffCapMs)

\* this.emit(kind, item)
Emit(em, id, kind) == [em EXCEPT ![id][kind] = em[id][kind] + 1]

\* Queue.clearProcessing: clearTimeout of the entry's timer, then delete the entry
\* variant: the entry is deleted without clearTimeout
clearProcessingKeepsTimer(proc, rs, id) ==
  [processing |-> [proc EXCEPT ![id] = 0], runs |-> rs]

clearProcessing(proc, rs, id) ==
  LET r == proc[id]
  IN [processing |-> [proc EXCEPT ![id] = 0],
      runs |-> IF r # 0 /\ rs[r].timer = "pending"
               THEN [rs EXCEPT ![r].timer = "cleared"] ELSE rs]

\* a run whose processItem call and whose handleTimeout call have both returned
\* is garbage: nothing refers to it any more
Finished == [obj |-> 0, id |-> 0, pc |-> "done", start |-> 0,
             timer |-> "none", tpc |-> "none", result |-> "none", thrown |-> FALSE]

Collect(rs) ==
  [r \in DOMAIN rs |->
     IF rs[r].pc = "done" /\ rs[r].timer # "pending" /\ rs[r].tpc # "updating"
     THEN Finished ELSE rs[r]]

NewRun(o, id, t) ==
  [obj |-> o, id |-> id, pc |-> "updating", start |-> t,
   timer |-> "pending", tpc |-> "none", result |-> "none", thrown |-> FALSE]

\* processItem without the in-flight check of its first line
ProcStartUnchecked(st, its, o, t) ==
  LET id == st.objs[o].id
      r == Len(st.runs) + 1
      marked == [st.objs EXCEPT ![o].status = "processing", ![o].lastAttemptAt = t]
  IN [objs |-> StUpdateStatus(marked, its, id, "processing"),
      processing |-> [st.processing EXCEPT ![id] = r],
      runs |-> Append(st.runs, NewRun(o, id, t))]

\* processItem that leaves the status of the item as it is
ProcStartUnmarked(st, its, o, t) ==
  LET id == st.objs[o].id
      r == Len(st.runs) + 1
      stamped == [st.objs EXCEPT ![o].lastAttemptAt = t]
  IN IF st.processing[id] # 0 THEN st
     ELSE [objs |-> stamped,
           processing |-> [st.processing EXCEPT ![id] = r],
           runs |-> Append(st.runs, NewRun(o, id, t))]

\* processItem up to its first await, on st = [objs, processing, runs]:
\* the in-flight check, the entry and its timer, status processing on the
\* item and in storage
ProcStart(st, its, o, t) ==
  LET id == st.objs[o].id
      r == Len(st.runs) + 1
      marked == [st.objs EXCEPT ![o].status = "processing", ![o].lastAttemptAt = t]
  IN IF st.processing[id] # 0 THEN st
     ELSE [objs |-> StUpdateStatus(marked, its, id, "processing"),
           processing |-> [st.processing EXCEPT ![id] = r],
           runs |-> Append(st.runs, NewRun(o, id, t))]

RECURSIVE ProcStartAll(_, _, _, _)
\* the poll tick's for loop: void processItem(item) for each dequeued item
ProcStartAll(st, its, refs, t) ==
  IF refs = <<>> THEN st
  ELSE ProcStartAll(ProcStart(st, its, Head(refs), t), its, Tail(refs), t)

EngineState == [objs |-> objs, processing |-> processing, runs |-> runs]

\* a direct call of Queue.processItem(item, processor) with item object o
ProcessItem(o, maxRuns) ==
  LET st == ProcStart(EngineState, items, o, now)
      noop == processing[objs[o].id] # 0
  IN /\ noop \/ Len(runs) < maxRuns
     /\ objs' = st.objs
     /\ processing' = st.processing
     /\ runs' = st.runs
     /\ ret' = [op |-> "processItem", obj |-> o, noop |-> noop]
     /\ UNCHANGED <<now, config, items, storagePaused, paused, breaker, stats,
                    emitted, tracked, loop, sweep, once>>

\* execute that counts a call it rejects as one more failure
InvokeCountingRejections(r) ==
  /\ runs[r].pc = "updating"
  /\ \/ /\ isOpen(breaker, now)
        /\ runs' = [runs EXCEPT ![r].pc = "threw", ![r].result = "rejected"]
        /\ breaker' = BreakerFailure(breaker, now)
     \/ /\ ~isOpen(breaker, now)
        /\ runs' = [runs EXCEPT ![r].pc = "running"]
        /\ breaker' = breaker
  /\ ret' = NoRet
  /\ UNCHANGED <<now, config, objs, items, storagePaused, paused, processing,
                 stats, emitted, tracked, loop, sweep, once>>

\* processItem after `await updateStatus`: circuitBreaker.execute, which
\* either rejects at once or invokes the processor
Invoke(r) ==
  /\ runs[r].pc = "updating"
  /\ \/ /\ isOpen(breaker, now)
        /\ runs' = [runs EXCEPT ![r].pc = "threw", ![r].result = "rejected"]
     \/ /\ ~isOpen(breaker, now)
        /\ runs' = [runs EXCEPT ![r].pc = "running"]
  /\ ret' = NoRet
  /\ UNCHANGED <<now, config, objs, items, storagePaused, paused, processing,
                 breaker, stats, emitted, tracked, loop, sweep, once>>

\* execute that counts an explicit {success: false} result as a failure
SettleCountingExplicit(r, outcome) ==
  /\ runs[r].pc = "running"
  /\ \/ /\ outcome = "success"
        /\ breaker' = BreakerSuccess(breaker)
        /\ runs' = [runs EXCEPT ![r].pc = "resolved", ![r].result = outcome]
     \/ /\ outcome = "fail"
        /\ breaker' = BreakerFailure(breaker, now)
        /\ runs' = [runs EXCEPT ![r].pc = "resolved", ![r].result = outcome]
     \/ /\ outcome \in {"throw", "throwNullish"}
        /\ breaker' = BreakerFailure(breaker, now)
        /\ runs' = [runs EXCEPT ![r].pc = "threw", ![r].result = outcome]
  /\ ret' = NoRet
  /\ UNCHANGED <<now, config, objs, items, storagePaused, paused, processing,
                 stats, emitted, tracked, loop, sweep, once>>

\* the processor settles; execute's continuation updates the breaker
Settle(r, outcome) ==
  /\ runs[r].pc = "running"
  /\ \/ /\ outcome \in {"success", "fail"}
        /\ breaker' = BreakerSuccess(breaker)
        /\ runs' = [runs EXCEPT ![r].pc = "resolved", ![r].result = outcome]
     \/ /\ outcome \in {"throw", "throwNullish"}
        /\ breaker' = BreakerFailure(breaker, now)
        /\ runs' = [runs EXCEPT ![r].pc = "threw", ![r].result = outcome]
  /\ ret' = NoRet
  /\ UNCHANGED <<now, config, objs, items, storagePaused, paused, processing,
                 stats, emitted, tracked, loop, sweep, once>>

\* result.success: storage.complete(item.id, true), up to its await
Complete(r) ==
  /\ runs[r].pc = "resolved" /\ runs[r].result = "success"
  /\ objs' = StComplete(objs, items, runs[r].id, TRUE)
  /\ runs' = [runs EXCEPT ![r].pc = "completing"]
  /\ ret' = NoRet
  /\ UNCHANGED <<now, config, items, storagePaused, paused, processing, breaker,
                 stats, emitted, tracked, loop, sweep, once>>

\* the stats lines with the counter incremented on every run
RecordStatsEveryRun(s, id, duration) ==
  [s EXCEPT !.totalProcessed = @ + 1,
            !.seen = @ \cup {id},
            !.samples = @ + 1,
            !.totalTime = @ + duration]

\* the stats lines of processItem's try block
RecordStats(s, id, duration) ==
  [s EXCEPT !.totalProcessed = IF id \in s.seen THEN @ ELSE @ + 1,
            !.seen = @ \cup {id},
            !.samples = @ + 1,
            !.totalTime = @ + duration]

\* after `await complete`: status delivered on the item, itemDelivered, the
\* stats, and the finally block
Deliver(r) ==
  LET c == clearProcessing(processing, runs, runs[r].id)
  IN /\ runs[r].pc = "completing"
     /\ objs' = [objs EXCEPT ![runs[r].obj].status = "delivered"]
     /\ emitted' = Emit(emitted, runs[r].id, "itemDelivered")
     /\ stats' = RecordStats(stats, runs[r].id, now - runs[r].start)
     /\ processing' = c.processing
     /\ runs' = Collect([c.runs EXCEPT ![r].pc = "done"])
     /\ ret' = NoRet
     /\ UNCHANGED <<now, config, items, storagePaused, paused, breaker, tracked,
                    loop, sweep, once>>

\* handleFailure that dead-letters only once attempts exceeds maxRetries
handleFailureStrict(os, its, o, maxRetries, backoffBaseMs, t) ==
  LET attempts == os[o].attempts + 1
      id == os[o].id
      failed == [os EXCEPT ![o].attempts = attempts, ![o].status = "failed"]
      queued == [failed EXCEPT ![o].nextAttemptAt = t + calculateBackoff(backoffBaseMs, attempts),
                               ![o].status = "queued"]
  IN IF attempts > maxRetries
     THEN [objs |-> StMoveToDeadLetter(failed, its, id, MaxRetriesReason), pc |-> "deadletter"]
     ELSE [objs |-> StUpdateStatus(queued, its, id, "queued"), pc |-> "retry"]

\* Queue.handleFailure up to its await, on item object o of run r
handleFailure(os, its, o, maxRetries, backoffBaseMs, t) ==
  LET attempts == os[o].attempts + 1
      id == os[o].id
      failed == [os EXCEPT ![o].attempts = attempts, ![o].status = "failed"]
      queued == [failed EXCEPT ![o].nextAttemptAt = t + calculateBackoff(backoffBaseMs, attempts),
                               ![o].status = "queued"]
  IN IF attempts >= maxRetries
     THEN [objs |-> StMoveToDeadLetter(failed, its, id, MaxRetriesReason), pc |-> "deadletter"]
     ELSE [objs |-> StUpdateStatus(queued, its, id, "queued"), pc |-> "retry"]

\* the else branch of processItem: `{success: false}`
HandleFailure(r) ==
  LET h == handleFailure(objs, items, runs[r].obj, config.maxRetries, config.backoffBaseMs, now)
  IN /\ runs[r].pc = "resolved" /\ runs[r].result = "fail"
     /\ objs' = h.objs
     /\ runs' = [runs EXCEPT ![r].pc = h.pc]
     /\ ret' = NoRet
     /\ UNCHANGED <<now, config, items, storagePaused, paused, processing, breaker,
                    stats, emitted, tracked, loop, sweep, once>>

\* handleError that re-queues a run the breaker rejected without consuming
\* an attempt
HandleErrorSparesRejected(r) ==
  LET rejected == runs[r].result = "rejected"
      message == IF rejected THEN CircuitOpenMessage ELSE ProcessorMessage
      recorded == [objs EXCEPT ![runs[r].obj].error = message]
      h == handleFailure(recorded, items, runs[r].obj, config.maxRetries, config.backoffBaseMs, now)
      spared == [recorded EXCEPT ![runs[r].obj].status = "queued"]
  IN /\ runs[r].pc = "threw"
     /\ stats' = [stats EXCEPT !.totalErrors = @ + 1]
     /\ tracked' = [tracked EXCEPT ![runs[r].id] = @ + 1]
     /\ objs' = IF rejected THEN StUpdateStatus(spared, items, runs[r].id, "queued")
                ELSE h.objs
     /\ runs' = [runs EXCEPT ![r].pc = IF rejected THEN "retry" ELSE h.pc,
                             ![r].thrown = TRUE]
     /\ ret' = NoRet
     /\ UNCHANGED <<now, config, items, storagePaused, paused, processing, breaker,
                    emitted, loop, sweep, once>>

\* the catch block of processItem: Queue.handleError, which records the
\* message, counts the error, notifies monitoring and calls handleFailure.
\* Its first statement reads err.message: when the processor rejected with
\* null or undefined that read throws a TypeError and handleError rejects
\* before it has changed anything
HandleError(r) ==
  LET message == IF runs[r].result = "rejected" THEN CircuitOpenMessage ELSE ProcessorMessage
      recorded == [objs EXCEPT ![runs[r].obj].error = message]
      h == handleFailure(recorded, items, runs[r].obj, config.maxRetries, config.backoffBaseMs, now)
      crash == runs[r].result = "throwNullish"
  IN /\ runs[r].pc = "threw"
     /\ stats' = IF crash THEN stats ELSE [stats EXCEPT !.totalErrors = @ + 1]
     /\ tracked' = IF crash THEN tracked ELSE [tracked EXCEPT ![runs[r].id] = @ + 1]
     /\ objs' = IF crash THEN objs ELSE h.objs
     /\ runs' = IF crash THEN [runs EXCEPT ![r].pc = "crashed", ![r].thrown = TRUE]
                ELSE [runs EXCEPT ![r].pc = h.pc, ![r].thrown = TRUE]
     /\ ret' = NoRet
     /\ UNCHANGED <<now, config, items, storagePaused, paused, processing, breaker,
                    emitted, loop, sweep, once>>

\* handleFailure after `await moveToDeadLetter`
DeadLetter(r) ==
  /\ runs[r].pc = "deadletter"
  /\ objs' = [objs EXCEPT ![runs[r].obj].status = "undeliverable"]
  /\ emitted' = Emit(emitted, runs[r].id, "itemUndeliverable")
  /\ runs' = [runs EXCEPT ![r].pc = "handled"]
  /\ ret' = NoRet
  /\ UNCHANGED <<now, config, items, storagePaused, paused, processing, breaker,
                 stats, tracked, loop, sweep, once>>

\* handleFailure after `await updateStatus(id, 'queued')`
RetryScheduled(r) ==
  /\ runs[r].pc = "retry"
  /\ emitted' = Emit(emitted, runs[r].id, "itemRetryScheduled")
  /\ runs' = [runs EXCEPT ![r].pc = "handled"]
  /\ ret' = NoRet
  /\ UNCHANGED <<now, config, objs, items, storagePaused, paused, processing,
                 breaker, stats, tracked, loop, sweep, once>>

\* processItem after handleFailure returned: the stats lines when the
\* failure was explicit (the catch block skips them), then the finally block;
\* when handleError rejected, the finally block runs and the promise of
\* processItem rejects
Finish(r) ==
  LET c == clearProcessing(processing, runs, runs[r].id)
  IN /\ runs[r].pc \in {"handled", "crashed"}
     /\ stats' = IF runs[r].thrown THEN stats
                 ELSE RecordStats(stats, runs[r].id, now - runs[r].start)
     /\ processing' = c.processing
     /\ runs' = Collect([c.runs EXCEPT ![r].pc = IF runs[r].pc = "crashed"
                                                 THEN "rejected" ELSE "done"])
     /\ ret' = NoRet
     /\ UNCHANGED <<now, config, objs, items, storagePaused, paused, breaker,
                    emitted, tracked, loop, sweep, once>>

\* handleTimeout that counts the timeout as an attempt
TimerFireCounted(r) ==
  LET id == runs[r].id
      info == processing[id]
      counted == [objs EXCEPT ![runs[r].obj].attempts = @ + 1]
  IN /\ runs[r].timer = "pending"
     /\ now >= runs[r].start + config.timeoutMs
     /\ IF info = 0
        THEN /\ runs' = Collect([runs EXCEPT ![r].timer = "fired", ![r].tpc = "done"])
             /\ objs' = objs
        ELSE /\ runs' = [runs EXCEPT ![r].timer = "fired", ![r].tpc = "updating"]
             /\ objs' = StUpdateStatus(counted, items, id, "failed")
     /\ ret' = NoRet
     /\ UNCHANGED <<now, config, items, storagePaused, paused, processing, breaker,
                    stats, emitted, tracked, loop, sweep, once>>

\* a deadline timer that also abandons the run it belongs to
TimerFireCancels(r) ==
  LET id == runs[r].id
      info == processing[id]
  IN /\ runs[r].timer = "pending"
     /\ now >= runs[r].start + config.timeoutMs
     /\ IF info = 0
        THEN /\ runs' = Collect([runs EXCEPT ![r].timer = "fired", ![r].tpc = "done"])
             /\ objs' = objs
        ELSE /\ runs' = [runs EXCEPT ![r].timer = "fired", ![r].tpc = "updating",
                                     ![r].pc = "done"]
             /\ objs' = StUpdateStatus(objs, items, id, "failed")
     /\ ret' = NoRet
     /\ UNCHANGED <<now, config, items, storagePaused, paused, processing, breaker,
                    stats, emitted, tracked, loop, sweep, once>>

\* the deadline timer of run r fires: handleTimeout up to its await
TimerFire(r) ==
  LET id == runs[r].id
      info == processing[id]
  IN /\ runs[r].timer = "pending"
     /\ now >= runs[r].start + config.timeoutMs
     /\ IF info = 0
        THEN /\ runs' = Collect([runs EXCEPT ![r].timer = "fired", ![r].tpc = "done"])
             /\ objs' = objs
        ELSE /\ runs' = [runs EXCEPT ![r].timer = "fired", ![r].tpc = "updating"]
             /\ objs' = StUpdateStatus(objs, items, id, "failed")
     /\ ret' = NoRet
     /\ UNCHANGED <<now, config, items, storagePaused, paused, processing, breaker,
                    stats, emitted, tracked, loop, sweep, once>>

\* handleTimeout that raises itemTimeout and leaves the in-flight entry
TimeoutFinishKeepsEntry(r) ==
  /\ runs[r].tpc = "updating"
  /\ emitted' = Emit(emitted, runs[r].id, "itemTimeout")
  /\ runs' = Collect([runs EXCEPT ![r].tpc = "done"])
  /\ ret' = NoRet
  /\ UNCHANGED <<now, config, objs, items, storagePaused, paused, processing, breaker,
                 stats, tracked, loop, sweep, once>>

\* handleTimeout after `await updateStatus(id, 'failed')`
TimeoutFinish(r) ==
  LET c == clearProcessing(processing, runs, runs[r].id)
  IN /\ runs[r].tpc = "updating"
     /\ emitted' = Emit(emitted, runs[r].id, "itemTimeout")
     /\ processing' = c.processing
     /\ runs' = Collect([c.runs EXCEPT ![r].tpc = "done"])
     /\ ret' = NoRet
     /\ UNCHANGED <<now, config, objs, items, storagePaused, paused, breaker,
                    stats, tracked, loop, sweep, once>>

\* ---------------------------------------------- stuck-item sweep (Queue)

\* cleanupStuckItems whose cutoff is one timeout, not two
SweepStartAtTimeout ==
  LET stuck == StuckRefs(objs, items, now - config.timeoutMs)
  IN /\ sweep.pc = "idle"
     /\ sweep' = IF stuck = <<>> THEN sweep ELSE [pc |-> "found", list |-> stuck]
     /\ ret' = NoRet
     /\ UNCHANGED <<now, config, objs, items, storagePaused, paused, processing,
                    runs, breaker, stats, emitted, tracked, loop, once>>

\* cleanupStuckItems up to `await findStuckProcessing`; when nothing is stuck
\* the loop body never runs
SweepStart ==
  LET stuck == StuckRefs(objs, items, now - config.timeoutMs * 2)
  IN /\ sweep.pc = "idle"
     /\ sweep' = IF stuck = <<>> THEN sweep ELSE [pc |-> "found", list |-> stuck]
     /\ ret' = NoRet
     /\ UNCHANGED <<now, config, objs, items, storagePaused, paused, processing,
                    runs, breaker, stats, emitted, tracked, loop, once>>

\* one synchronous section of the sweep's for loop: itemStuck for the item
\* whose updateStatus was awaited, then updateStatus(id, 'failed') for the next
SweepStep ==
  LET emitting == sweep.pc = "marked"
      rest == IF emitting THEN Tail(sweep.list) ELSE sweep.list
  IN /\ sweep.pc \in {"found", "marked"}
     /\ emitted' = IF emitting THEN Emit(emitted, objs[Head(sweep.list)].id, "itemStuck")
                   ELSE emitted
     /\ objs' = IF rest = <<>> THEN objs
                ELSE StUpdateStatus(objs, items, objs[Head(rest)].id, "failed")
     /\ sweep' = IF rest = <<>> THEN [pc |-> "idle", list |-> <<>>]
                 ELSE [pc |-> "marked", list |-> rest]
     /\ ret' = NoRet
     /\ UNCHANGED <<now, config, items, storagePaused, paused, processing, runs,
                    breaker, stats, tracked, loop, once>>

\* ------------------------------------------------- producers and operators

OrNormal(priority) == IF priority = "undefined" THEN "normal" ELSE priority

\* Queue.enqueue(data, {id, priority}): storage.enqueue inserts or overwrites
Enqueue(id, priority, data, maxObjs) ==
  /\ Len(objs) < maxObjs
  /\ objs' = Append(objs, NewItem(id, OrNormal(priority), data, now, None))
  /\ items' = MapSet(objs, items, id, Len(objs) + 1)
  /\ ret' = [op |-> "enqueue", id |-> id, obj |-> Len(objs) + 1]
  /\ UNCHANGED <<now, config, storagePaused, paused, processing, runs, breaker,
                 stats, emitted, tracked, loop, sweep, once>>

\* the item literal of InMemoryStorage.enqueueOnce: the defaults, then the
\* spread of opts.metadata (meta.given says whether opts.metadata was passed)
OnceItem(id, priority, data, meta, t) ==
  IF meta.given
  THEN [NewItem(id, OrNormal(priority), data, meta.queuedAt, meta.expiresAt)
          EXCEPT !.attempts = meta.attempts, !.status = meta.status,
                 !.nextAttemptAt = meta.nextAttemptAt]
  ELSE NewItem(id, OrNormal(priority), data, t, None)

\* enqueueOnce without the has(id) check: it always inserts
StEnqueueOnceUnchecked(id, priority, data, meta, maxObjs) ==
  LET ref == Len(objs) + 1
  IN /\ Len(once) < MaxOnce
     /\ Len(objs) < maxObjs
     /\ objs' = Append(objs, OnceItem(id, priority, data, meta, now))
     /\ items' = MapSet(objs, items, id, ref)
     /\ once' = Append(once, [id |-> id, data |-> data, had |-> Has(objs, items, id),
                              obj |-> ref, pc |-> "enqueued", result |-> TRUE])
     /\ ret' = NoRet
     /\ UNCHANGED <<now, config, storagePaused, paused, processing, runs, breaker,
                    stats, emitted, tracked, loop, sweep>>

\* InMemoryStorage.enqueueOnce up to `await this.enqueue(item)`: the check,
\* the item and items.set happen in one synchronous section
StEnqueueOnce(id, priority, data, meta, maxObjs) ==
  LET had == Has(objs, items, id)
      ref == Len(objs) + 1
  IN /\ Len(once) < MaxOnce
     /\ had \/ Len(objs) < maxObjs
     /\ objs' = IF had THEN objs ELSE Append(objs, OnceItem(id, priority, data, meta, now))
     /\ items' = IF had THEN items ELSE MapSet(objs, items, id, ref)
     /\ once' = Append(once, [id |-> id, data |-> data, had |-> had,
                              obj |-> IF had THEN 0 ELSE ref,
                              pc |-> IF had THEN "returned" ELSE "enqueued",
                              result |-> ~had])
     /\ ret' = IF had THEN [op |-> "enqueueOnce", id |-> id, result |-> FALSE] ELSE NoRet
     /\ UNCHANGED <<now, config, storagePaused, paused, processing, runs, breaker,
                    stats, emitted, tracked, loop, sweep>>

\* the metadata QueueInstance.enqueueOnce passes
InstanceMeta(expiresAt, t) ==
  [given |-> TRUE, attempts |-> 0, status |-> "queued", queuedAt |-> t,
   nextAttemptAt |-> None, expiresAt |-> expiresAt]

\* QueueInstance.enqueueOnce(id, data, {priority, expiresAt})
EnqueueOnce(id, priority, data, expiresAt, maxObjs) ==
  StEnqueueOnce(id, OrNormal(priority), data, InstanceMeta(expiresAt, now), maxObjs)

\* enqueueOnce after `await this.enqueue(item)`: return true
OnceReturn(k) ==
  /\ once[k].pc = "enqueued"
  /\ once' = [once EXCEPT ![k].pc = "returned"]
  /\ ret' = [op |-> "enqueueOnce", id |-> once[k].id, result |-> TRUE]
  /\ UNCHANGED <<now, config, objs, items, storagePaused, paused, processing, runs,
                 breaker, stats, emitted, tracked, loop, sweep>>

\* storage.dequeue(limit) called by a client of the storage
Dequeue(limit) ==
  /\ ret' = [op |-> "dequeue", limit |-> limit,
             result |-> StDequeue(objs, items, limit, now),
             n |-> IF ret.op = "dequeue" THEN 1 - ret.n ELSE 0]
  /\ UNCHANGED <<now, config, objs, items, storagePaused, paused, processing, runs,
                 breaker, stats, emitted, tracked, loop, sweep, once>>

\* storage.updateStatus(id, status) called by a client of the storage
SetStatus(id, status) ==
  /\ objs' = StUpdateStatus(objs, items, id, status)
  /\ ret' = NoRet
  /\ UNCHANGED <<now, config, items, storagePaused, paused, processing, runs,
                 breaker, stats, emitted, tracked, loop, sweep, once>>

\* an operator re-queues a failed item: storage.updateStatus(id, 'queued')
Requeue(id) ==
  /\ Has(objs, items, id)
  /\ objs[Get(objs, items, id)].status = "failed"
  /\ objs' = StUpdateStatus(objs, items, id, "queued")
  /\ ret' = NoRet
  /\ UNCHANGED <<now, config, items, storagePaused, paused, processing, runs,
                 breaker, stats, emitted, tracked, loop, sweep, once>>

\* QueueInstance.pause / resume: the storage flag
StoragePause(flag) ==
  /\ storagePaused' = flag
  /\ ret' = NoRet
  /\ UNCHANGED <<now, config, objs, items, paused, processing, runs, breaker,
                 stats, emitted, tracked, loop, sweep, once>>

\* QueueInstance.isPaused: the storage flag
IsPaused ==
  /\ ret' = [op |-> "isPaused", result |-> storagePaused]
  /\ UNCHANGED <<now, config, objs, items, storagePaused, paused, processing, runs,
                 breaker, stats, emitted, tracked, loop, sweep, once>>

\* Queue.pause / resume: the engine's own flag
QueuePause(flag) ==
  /\ paused' = flag
  /\ ret' = NoRet
  /\ UNCHANGED <<now, config, objs, items, storagePaused, processing, runs,
                 breaker, stats, emitted, tracked, loop, sweep, once>>

\* ----------------------------------------------- poll loop (QueueInstance)

MaxLoops == 1
MaxLiveObjs == 2
MaxProducerObjs == 2
MaxLateObjs == 2
MaxLateRuns == 2
MaxSharedObjs == 2
MaxSharedRuns == 7
MaxLiveRuns == 6
MaxLiveTicks == 8
MaxChains == 2
MaxRetryRuns == 3

NoTask == [pc |-> "none", due |-> 0, wasPaused |-> FALSE, items |-> <<>>]

\* useProcessor(fn)
UseProcessor ==
  /\ ~loop.processor
  /\ loop' = [loop EXCEPT !.processor = TRUE]
  /\ ret' = NoRet
  /\ UNCHANGED <<now, config, objs, items, storagePaused, paused, processing, runs,
                 breaker, stats, emitted, tracked, sweep, once>>

\* start(): sets running and runs loop() up to `await storage.isPaused()`;
\* every call begins a chain of poll ticks of its own
StartUpTo(maxLoops) ==
  /\ loop.processor
  /\ Len(loop.tasks) < maxLoops
  /\ loop' = [loop EXCEPT !.running = TRUE,
                          !.tasks = Append(@, [NoTask EXCEPT !.pc = "isPaused",
                                                             !.wasPaused = storagePaused])]
  /\ ret' = NoRet
  /\ UNCHANGED <<now, config, objs, items, storagePaused, paused, processing, runs,
                 breaker, stats, emitted, tracked, sweep, once>>

\* start() while no chain of poll ticks exists
Start == StartUpTo(MaxLoops)

\* stop()
Stop ==
  /\ loop.running
  /\ loop' = [loop EXCEPT !.running = FALSE]
  /\ ret' = NoRet
  /\ UNCHANGED <<now, config, objs, items, storagePaused, paused, processing, runs,
                 breaker, stats, emitted, tracked, sweep, once>>

RemoveAt(s, k) == SubSeq(s, 1, k - 1) \o SubSeq(s, k + 1, Len(s))

\* loop() without the check of this.running in its first line
LoopWakeAlways(k) ==
  /\ loop.tasks[k].pc = "scheduled"
  /\ now >= loop.tasks[k].due
  /\ loop' = [loop EXCEPT !.tasks[k].pc = "isPaused", !.tasks[k].wasPaused = storagePaused]
  /\ ret' = NoRet
  /\ UNCHANGED <<now, config, objs, items, storagePaused, paused, processing, runs,
                 breaker, stats, emitted, tracked, sweep, once>>

\* loop() that also holds back while the engine's own flag is set
LoopWakeReadsEngineFlag(k) ==
  /\ loop.tasks[k].pc = "scheduled"
  /\ now >= loop.tasks[k].due
  /\ loop' = IF loop.running
             THEN [loop EXCEPT !.tasks[k].pc = "isPaused",
                               !.tasks[k].wasPaused = storagePaused \/ paused]
             ELSE [loop EXCEPT !.tasks = RemoveAt(@, k)]
  /\ ret' = NoRet
  /\ UNCHANGED <<now, config, objs, items, storagePaused, paused, processing, runs,
                 breaker, stats, emitted, tracked, sweep, once>>

\* setTimeout(loop, pollInterval) fires: loop() up to `await storage.isPaused()`
LoopWake(k) ==
  /\ loop.tasks[k].pc = "scheduled"
  /\ now >= loop.tasks[k].due
  /\ loop' = IF loop.running
             THEN [loop EXCEPT !.tasks[k].pc = "isPaused", !.tasks[k].wasPaused = storagePaused]
             ELSE [loop EXCEPT !.tasks = RemoveAt(@, k)]
  /\ ret' = NoRet
  /\ UNCHANGED <<now, config, objs, items, storagePaused, paused, processing, runs,
                 breaker, stats, emitted, tracked, sweep, once>>

\* loop() that asks dequeue only for the capacity the in-flight set leaves
LoopPollGated(k) ==
  LET inFlight == Cardinality({i \in Ids : processing[i] # 0})
      room == IF inFlight < config.maxConcurrent THEN config.maxConcurrent - inFlight ELSE 0
  IN /\ loop.tasks[k].pc = "isPaused"
     /\ loop' = IF loop.tasks[k].wasPaused
                THEN [loop EXCEPT !.tasks[k].pc = "scheduled",
                                  !.tasks[k].due = now + PollIntervalMs]
                ELSE [loop EXCEPT !.tasks[k].pc = "dequeue",
                                  !.tasks[k].items = StDequeue(objs, items, room, now)]
     /\ ret' = NoRet
     /\ UNCHANGED <<now, config, objs, items, storagePaused, paused, processing, runs,
                    breaker, stats, emitted, tracked, sweep, once>>

\* loop() after `await storage.isPaused()`: reschedule when paused, else
\* storage.dequeue(maxConcurrent) up to its await
LoopPoll(k) ==
  /\ loop.tasks[k].pc = "isPaused"
  /\ loop' = IF loop.tasks[k].wasPaused
             THEN [loop EXCEPT !.tasks[k].pc = "scheduled",
                               !.tasks[k].due = now + PollIntervalMs]
             ELSE [loop EXCEPT !.tasks[k].pc = "dequeue",
                               !.tasks[k].items = StDequeue(objs, items, config.maxConcurrent, now)]
  /\ ret' = NoRet
  /\ UNCHANGED <<now, config, objs, items, storagePaused, paused, processing, runs,
                 breaker, stats, emitted, tracked, sweep, once>>

\* loop() after `await storage.dequeue`: processItem for every item, without
\* awaiting any, then setTimeout(loop, pollInterval)
LoopDispatch(k, maxRuns) ==
  LET st == ProcStartAll(EngineState, items, loop.tasks[k].items, now)
  IN /\ loop.tasks[k].pc = "dequeue"
     /\ Len(st.runs) <= maxRuns
     /\ objs' = st.objs
     /\ processing' = st.processing
     /\ runs' = st.runs
     /\ loop' = [loop EXCEPT !.tasks[k].pc = "scheduled",
                             !.tasks[k].due = now + PollIntervalMs,
                             !.tasks[k].items = <<>>]
     /\ ret' = NoRet
     /\ UNCHANGED <<now, config, items, storagePaused, paused, breaker, stats,
                    emitted, tracked, sweep, once>>

\* ------------------------------------------------------------------- clock

Tick(maxTime) ==
  /\ now + TickMs <= maxTime
  /\ now' = now + TickMs
  /\ ret' = NoRet
  /\ UNCHANGED <<config, objs, items, storagePaused, paused, processing, runs,
                 breaker, stats, emitted, tracked, loop, sweep, once>>

\* half a breaker cooldown passes
Elapse(maxTime) ==
  /\ now + BreakerTimeoutMs \div 2 <= maxTime
  /\ now' = now + BreakerTimeoutMs \div 2
  /\ ret' = NoRet
  /\ UNCHANGED <<config, objs, items, storagePaused, paused, processing, runs,
                 breaker, stats, emitted, tracked, loop, sweep, once>>

\* ------------------------------------------------------------ specification

Configs ==
  [maxRetries : 1..MaxRetriesCfg, backoffBaseMs : {TickMs},
   maxConcurrent : 1..MaxConcurrentCfg, timeoutMs : {TickMs \div 2}]

InitWith(cfgs) ==
  /\ now = 0
  /\ config \in cfgs
  /\ objs = <<>>
  /\ items = <<>>
  /\ storagePaused = FALSE
  /\ paused = FALSE
  /\ processing = [i \in Ids |-> 0]
  /\ runs = <<>>
  /\ breaker = [failures |-> 0, lastFailure |-> 0]
  /\ stats = [totalProcessed |-> 0, totalErrors |-> 0, samples |-> 0, totalTime |-> 0, seen |-> {}]
  /\ emitted = [i \in Ids |-> [k \in EventKinds |-> 0]]
  /\ tracked = [i \in Ids |-> 0]
  /\ loop = [processor |-> FALSE, running |-> FALSE, tasks |-> <<>>]
  /\ sweep = [pc |-> "idle", list |-> <<>>]
  /\ once = <<>>
  /\ ret = NoRet

Outcomes == {"success", "fail", "throw"}

\* a processor that never succeeds
FailingOutcomes == {"fail", "throw"}

\* a processor that may also reject with null or undefined (Promise.reject())
AnyOutcomes == Outcomes \cup {"throwNullish"}

\* the steps of a processItem run whose processor settles with one of
\* outcomes, of its deadline timer and of the sweep
EngineStepsWith(outcomes) ==
  \/ \E r \in 1..Len(runs) : Invoke(r)
  \/ \E r \in 1..Len(runs), out \in outcomes : Settle(r, out)
  \/ \E r \in 1..Len(runs) : HandleFailure(r)
  \/ \E r \in 1..Len(runs) : HandleError(r)
  \/ \E r \in 1..Len(runs) : DeadLetter(r)
  \/ \E r \in 1..Len(runs) : RetryScheduled(r)
  \/ \E r \in 1..Len(runs) : Finish(r)
  \/ \E r \in 1..Len(runs) : TimerFire(r)
  \/ \E r \in 1..Len(runs) : TimeoutFinish(r)
  \/ SweepStart
  \/ SweepStep

EngineSteps ==
  \/ EngineStepsWith(Outcomes)
  \/ \E r \in 1..Len(runs) : Complete(r)
  \/ \E r \in 1..Len(runs) : Deliver(r)

\* crypto.randomUUID(): an id the store does not hold
NewId == CHOOSE i \in 1..(MaxIds + 1) :
           /\ ~Has(objs, items, i)
           /\ \A j \in 1..(i - 1) : Has(objs, items, j)

\* the engine and its storage; processItem is called without awaiting
\* earlier calls
Init == InitWith(Configs)

Next ==
  \/ /\ NewId \in Ids
     /\ Enqueue(NewId, "undefined", 1, MaxEngineObjs)
  \/ \E id \in Ids : Requeue(id)
  \/ \E o \in ObjRefs : ProcessItem(o, MaxRuns)
  \/ EngineSteps
  \/ Tick(MaxTime)

Spec == Init /\ [][Next]_vars

\* the same with a caller that awaits each processItem call before making
\* the next one
AllReturned == \A r \in 1..Len(runs) : runs[r].pc \in {"done", "rejected"}

NextSerial ==
  \/ /\ NewId \in Ids
     /\ Enqueue(NewId, "undefined", 1, MaxEngineObjs)
  \/ \E id \in Ids : Requeue(id)
  \/ \E o \in ObjRefs : AllReturned /\ ProcessItem(o, MaxSerialRuns)
  \/ EngineStepsWith(FailingOutcomes)
  \/ Tick(MaxTime)

SpecSerial == Init /\ [][NextSerial]_vars

\* the poll loop over items enqueued before the first poll interval has
\* passed, with a processor that settles at once in one of outcomes: between
\* two timer callbacks every pending continuation runs, so time passes only
\* when the loop is started, every run has returned and every loop task
\* waits for a timer that is not due
LiveConfigs == {c \in Configs : c.maxRetries = MaxRetriesCfg}

InitLive == InitWith(LiveConfigs)

Quiet ==
  /\ loop.tasks # <<>>
  /\ \A k \in 1..Len(loop.tasks) :
        loop.tasks[k].pc = "scheduled" /\ now < loop.tasks[k].due
  /\ AllReturned
  /\ sweep.pc = "idle"

LoopStep ==
  \/ \E k \in 1..Len(loop.tasks) : LoopWake(k)
  \/ \E k \in 1..Len(loop.tasks) : LoopPoll(k)
  \/ \E k \in 1..Len(loop.tasks) : LoopDispatch(k, MaxLiveRuns)

RunStep(r, outcomes) ==
  /\ r \in 1..Len(runs)
  /\ \/ Invoke(r)
     \/ \E out \in outcomes : Settle(r, out)
     \/ Complete(r)
     \/ Deliver(r)
     \/ HandleFailure(r)
     \/ HandleError(r)
     \/ DeadLetter(r)
     \/ RetryScheduled(r)
     \/ Finish(r)

SweepRun == SweepStart \/ SweepStep

NextLiveWith(outcomes) ==
  \/ /\ NewId \in Ids
     /\ now = 0
     /\ Enqueue(NewId, "undefined", 1, MaxLiveObjs)
  \/ UseProcessor
  \/ Start
  \/ LoopStep
  \/ \E r \in 1..MaxLiveRuns : RunStep(r, outcomes)
  \/ SweepRun
  \/ Quiet /\ Tick(MaxLiveTicks * TickMs)

\* timers fire, continuations run and the processor settles
FairnessWith(outcomes) ==
  /\ WF_vars(UseProcessor)
  /\ WF_vars(Start)
  /\ WF_vars(LoopStep)
  /\ \A r \in 1..MaxLiveRuns : WF_vars(RunStep(r, outcomes))
  /\ WF_vars(SweepRun)
  /\ WF_vars(Quiet /\ Tick(MaxLiveTicks * TickMs))

NextLive == NextLiveWith(AnyOutcomes)

SpecLive == InitLive /\ [][NextLive]_vars /\ FairnessWith(AnyOutcomes)

\* the same with a processor that never rejects with null or undefined
NextLiveError == NextLiveWith(Outcomes)

SpecLiveError == InitLive /\ [][NextLiveError]_vars /\ FairnessWith(Outcomes)

\* the poll loop with processors that take time. The awaits of the in-memory
\* store resume in the same turn of the event loop: a timer callback, a call
\* of the host or the passing of time comes only when every run waits for
\* its processor or has returned, no handleTimeout or sweep is between two
\* storage calls and every loop task waits for its timer
Waiting ==
  /\ \A r \in 1..Len(runs) :
        runs[r].pc \in {"running", "done", "rejected"} /\ runs[r].tpc # "updating"
  /\ \A k \in 1..Len(loop.tasks) : loop.tasks[k].pc = "scheduled"
  /\ sweep.pc = "idle"

NextTimedWith(maxObjs, maxRuns) ==
  \/ /\ NewId \in Ids
     /\ Waiting
     /\ Enqueue(NewId, "undefined", 1, maxObjs)
  \/ \E id \in Ids : Waiting /\ Requeue(id)
  \/ Waiting /\ UseProcessor
  \/ Waiting /\ Start
  \/ \E k \in 1..Len(loop.tasks) : Waiting /\ LoopWake(k)
  \/ \E k \in 1..Len(loop.tasks) : LoopPoll(k)
  \/ \E k \in 1..Len(loop.tasks) : LoopDispatch(k, maxRuns)
  \/ \E r \in 1..Len(runs) : Invoke(r)
  \/ \E r \in 1..Len(runs), out \in Outcomes : Settle(r, out)
  \/ \E r \in 1..Len(runs) : Complete(r)
  \/ \E r \in 1..Len(runs) : Deliver(r)
  \/ \E r \in 1..Len(runs) : HandleFailure(r)
  \/ \E r \in 1..Len(runs) : HandleError(r)
  \/ \E r \in 1..Len(runs) : DeadLetter(r)
  \/ \E r \in 1..Len(runs) : RetryScheduled(r)
  \/ \E r \in 1..Len(runs) : Finish(r)
  \/ \E r \in 1..Len(runs) : Waiting /\ TimerFire(r)
  \/ \E r \in 1..Len(runs) : TimeoutFinish(r)
  \/ Waiting /\ SweepStart
  \/ SweepStep
  \/ Waiting /\ Tick(MaxTime)

NextTimed == NextTimedWith(MaxEngineObjs, MaxRuns)

SpecTimed == Init /\ [][NextTimed]_vars

\* the same with several items in the store
NextLate == NextTimedWith(MaxLateObjs, MaxLateRuns)

SpecLate == InitLive /\ [][NextLate]_vars

\* producers that choose the item id (opts.id), awaited processItem calls
\* with a processor that never succeeds, deadline timers and the sweep
NextProducer ==
  \/ \E id \in 1..MaxOnceIds : Enqueue(id, "undefined", 1, MaxProducerObjs)
  \/ \E o \in ObjRefs : AllReturned /\ ProcessItem(o, MaxRuns)
  \/ EngineStepsWith(FailingOutcomes)
  \/ Tick(MaxTime)

SpecProducer == InitLive /\ [][NextProducer]_vars

\* awaited processItem calls on several items that share the breaker
NextShared ==
  \/ /\ NewId \in Ids
     /\ Enqueue(NewId, "undefined", 1, MaxSharedObjs)
  \/ \E o \in ObjRefs : AllReturned /\ ProcessItem(o, MaxSharedRuns)
  \/ \E r \in 1..Len(runs) : Invoke(r)
  \/ \E r \in 1..Len(runs), out \in Outcomes : Settle(r, out)
  \/ \E r \in 1..Len(runs) : Complete(r)
  \/ \E r \in 1..Len(runs) : Deliver(r)
  \/ \E r \in 1..Len(runs) : HandleFailure(r)
  \/ \E r \in 1..Len(runs) : HandleError(r)
  \/ \E r \in 1..Len(runs) : DeadLetter(r)
  \/ \E r \in 1..Len(runs) : RetryScheduled(r)
  \/ \E r \in 1..Len(runs) : Finish(r)

SpecShared == InitLive /\ [][NextShared]_vars

\* no deadline timer is overdue
NoTimerDue ==
  \A r \in 1..Len(runs) :
     runs[r].timer = "pending" => now < runs[r].start + config.timeoutMs

\* the poll loop within the first sweep interval, turn by turn of the event
\* loop: a call of the host, a timer callback and the settling of a
\* processor each start a turn, the continuations of a turn run before the
\* next turn starts, and the clock does not pass a deadline timer that is due
NextTurns ==
  \/ /\ NewId \in Ids
     /\ Waiting
     /\ Enqueue(NewId, "undefined", 1, MaxEngineObjs)
  \/ \E id \in Ids : Waiting /\ Requeue(id)
  \/ Waiting /\ UseProcessor
  \/ Waiting /\ Start
  \/ \E k \in 1..Len(loop.tasks) : Waiting /\ LoopWake(k)
  \/ \E k \in 1..Len(loop.tasks) : LoopPoll(k)
  \/ \E k \in 1..Len(loop.tasks) : LoopDispatch(k, MaxRuns)
  \/ \E r \in 1..Len(runs) : Invoke(r)
  \/ \E r \in 1..Len(runs), out \in Outcomes : Waiting /\ Settle(r, out)
  \/ \E r \in 1..Len(runs) : Complete(r)
  \/ \E r \in 1..Len(runs) : Deliver(r)
  \/ \E r \in 1..Len(runs) : HandleFailure(r)
  \/ \E r \in 1..Len(runs) : HandleError(r)
  \/ \E r \in 1..Len(runs) : DeadLetter(r)
  \/ \E r \in 1..Len(runs) : RetryScheduled(r)
  \/ \E r \in 1..Len(runs) : Finish(r)
  \/ \E r \in 1..Len(runs) : Waiting /\ TimerFire(r)
  \/ \E r \in 1..Len(runs) : TimeoutFinish(r)
  \/ Waiting /\ NoTimerDue /\ Tick(MaxTime)

SpecTurns == Init /\ [][NextTurns]_vars

\* the poll loop turn by turn of the event loop, with an operator who uses
\* the pause switch of the QueueInstance and the one of the Queue
NextSwitches ==
  \/ NextTurns
  \/ Waiting /\ Stop
  \/ \E flag \in BOOLEAN : Waiting /\ StoragePause(flag)
  \/ \E flag \in BOOLEAN : Waiting /\ QueuePause(flag)
  \/ Waiting /\ IsPaused

SpecSwitches == Init /\ [][NextSwitches]_vars

\* the poll loop turn by turn of the event loop, with a host that calls
\* start() and stop() any number of times
NextChains ==
  \/ /\ NewId \in Ids
     /\ Waiting
     /\ Enqueue(NewId, "undefined", 1, MaxEngineObjs)
  \/ Waiting /\ UseProcessor
  \/ Waiting /\ StartUpTo(MaxChains)
  \/ Waiting /\ Stop
  \/ \E k \in 1..Len(loop.tasks) : Waiting /\ LoopWake(k)
  \/ \E k \in 1..Len(loop.tasks) : LoopPoll(k)
  \/ \E k \in 1..Len(loop.tasks) : LoopDispatch(k, MaxRuns)
  \/ \E r \in 1..Len(runs) : Invoke(r)
  \/ \E r \in 1..Len(runs), out \in Outcomes : Waiting /\ Settle(r, out)
  \/ \E r \in 1..Len(runs) : Complete(r)
  \/ \E r \in 1..Len(runs) : Deliver(r)
  \/ \E r \in 1..Len(runs) : HandleFailure(r)
  \/ \E r \in 1..Len(runs) : HandleError(r)
  \/ \E r \in 1..Len(runs) : DeadLetter(r)
  \/ \E r \in 1..Len(runs) : RetryScheduled(r)
  \/ \E r \in 1..Len(runs) : Finish(r)
  \/ \E r \in 1..Len(runs) : Waiting /\ TimerFire(r)
  \/ \E r \in 1..Len(runs) : TimeoutFinish(r)
  \/ Waiting /\ NoTimerDue /\ Tick(MaxTime)

SpecChains == Init /\ [][NextChains]_vars

\* the poll loop over one item that is enqueued once and that nobody
\* re-queues, with a processor that settles in any way at any time, deadline
\* timers that may fire late, and sweeps; timer callbacks, host calls and
\* the clock come between the turns of the event loop
NextRetries ==
  \/ /\ NewId \in Ids
     /\ items = <<>>
     /\ Waiting
     /\ Enqueue(NewId, "undefined", 1, MaxEngineObjs)
  \/ Waiting /\ UseProcessor
  \/ Waiting /\ Start
  \/ \E k \in 1..Len(loop.tasks) : Waiting /\ LoopWake(k)
  \/ \E k \in 1..Len(loop.tasks) : LoopPoll(k)
  \/ \E k \in 1..Len(loop.tasks) : LoopDispatch(k, MaxRetryRuns)
  \/ \E r \in 1..Len(runs) : Invoke(r)
  \/ \E r \in 1..Len(runs), out \in AnyOutcomes : Settle(r, out)
  \/ \E r \in 1..Len(runs) : Complete(r)
  \/ \E r \in 1..Len(runs) : Deliver(r)
  \/ \E r \in 1..Len(runs) : HandleFailure(r)
  \/ \E r \in 1..Len(runs) : HandleError(r)
  \/ \E r \in 1..Len(runs) : DeadLetter(r)
  \/ \E r \in 1..Len(runs) : RetryScheduled(r)
  \/ \E r \in 1..Len(runs) : Finish(r)
  \/ \E r \in 1..Len(runs) : Waiting /\ TimerFire(r)
  \/ \E r \in 1..Len(runs) : TimeoutFinish(r)
  \/ Waiting /\ SweepStart
  \/ SweepStep
  \/ Waiting /\ Tick(MaxTime)

SpecRetries == Init /\ [][NextRetries]_vars

\* the same with a deadline shorter or longer than the poll interval, so
\* that a processor may still be running, within its deadline, when the next
\* poll tick comes
SlowConfigs ==
  [maxRetries : {MaxRetriesCfg}, backoffBaseMs : {TickMs},
   maxConcurrent : 1..MaxConcurrentCfg, timeoutMs : {TickMs \div 2, TickMs + TickMs \div 2}]

InitSlow == InitWith(SlowConfigs)

SpecSlow == InitSlow /\ [][NextChains]_vars

\* the poll loop within the first sweep interval, turn by turn of the event
\* loop, over items that producers add at time 0 with enqueueOnce, with or
\* without an expiry one poll interval ahead
NextExpiry ==
  \/ \E id \in 1..MaxOnceIds, e \in {None, TickMs} :
       now = 0 /\ Waiting /\ EnqueueOnce(id, "undefined", 1, e, MaxLateObjs)
  \/ \E k \in 1..Len(once) : OnceReturn(k)
  \/ Waiting /\ UseProcessor
  \/ Waiting /\ Start
  \/ \E k \in 1..Len(loop.tasks) : Waiting /\ LoopWake(k)
  \/ \E k \in 1..Len(loop.tasks) : LoopPoll(k)
  \/ \E k \in 1..Len(loop.tasks) : LoopDispatch(k, MaxRetryRuns)
  \/ \E r \in 1..Len(runs) : Invoke(r)
  \/ \E r \in 1..Len(runs), out \in Outcomes : Waiting /\ Settle(r, out)
  \/ \E r \in 1..Len(runs) : Complete(r)
  \/ \E r \in 1..Len(runs) : Deliver(r)
  \/ \E r \in 1..Len(runs) : HandleFailure(r)
  \/ \E r \in 1..Len(runs) : HandleError(r)
  \/ \E r \in 1..Len(runs) : DeadLetter(r)
  \/ \E r \in 1..Len(runs) : RetryScheduled(r)
  \/ \E r \in 1..Len(runs) : Finish(r)
  \/ \E r \in 1..Len(runs) : Waiting /\ TimerFire(r)
  \/ \E r \in 1..Len(runs) : TimeoutFinish(r)
  \/ Waiting /\ NoTimerDue /\ Tick(MaxTime)

SpecExpiry == InitLive /\ [][NextExpiry]_vars

\* no timer of the poll loop is due
NoWakeDue ==
  \A k \in 1..Len(loop.tasks) :
     loop.tasks[k].pc = "scheduled" => now < loop.tasks[k].due

\* the poll loop with a processor that never settles, turn by turn of the
\* event loop and within the first sweep interval: the clock passes no
\* timer that is due
HangTick == Waiting /\ NoTimerDue /\ NoWakeDue /\ loop.tasks # <<>> /\ Tick(MaxLiveTicks * TickMs)

NextHang ==
  \/ /\ NewId \in Ids
     /\ now = 0
     /\ Waiting
     /\ Enqueue(NewId, "undefined", 1, MaxLiveObjs)
  \/ Waiting /\ UseProcessor
  \/ Waiting /\ Start
  \/ \E k \in 1..Len(loop.tasks) : Waiting /\ LoopWake(k)
  \/ \E k \in 1..Len(loop.tasks) : LoopPoll(k)
  \/ \E k \in 1..Len(loop.tasks) : LoopDispatch(k, MaxLiveRuns)
  \/ \E r \in 1..Len(runs) : Invoke(r)
  \/ \E r \in 1..Len(runs) : Waiting /\ TimerFire(r)
  \/ \E r \in 1..Len(runs) : TimeoutFinish(r)
  \/ HangTick

\* timers fire, continuations run and time passes
FairnessHang ==
  /\ WF_vars(Waiting /\ UseProcessor)
  /\ WF_vars(Waiting /\ Start)
  /\ WF_vars(\E k \in 1..Len(loop.tasks) : Waiting /\ LoopWake(k))
  /\ WF_vars(\E k \in 1..Len(loop.tasks) : LoopPoll(k))
  /\ WF_vars(\E k \in 1..Len(loop.tasks) : LoopDispatch(k, MaxLiveRuns))
  /\ WF_vars(\E r \in 1..Len(runs) : Invoke(r))
  /\ WF_vars(\E r \in 1..Len(runs) : Waiting /\ TimerFire(r))
  /\ WF_vars(\E r \in 1..Len(runs) : TimeoutFinish(r))
  /\ WF_vars(HangTick)

SpecHang == InitLive /\ [][NextHang]_vars /\ FairnessHang

\* awaited processItem calls with a processor that settles in any way
NextSettle ==
  \/ /\ NewId \in Ids
     /\ Enqueue(NewId, "undefined", 1, MaxEngineObjs)
  \/ \E o \in ObjRefs : AllReturned /\ ProcessItem(o, MaxRuns)
  \/ \E r \in 1..Len(runs) : Invoke(r)
  \/ \E r \in 1..Len(runs), out \in AnyOutcomes : Settle(r, out)
  \/ \E r \in 1..Len(runs) : Complete(r)
  \/ \E r \in 1..Len(runs) : Deliver(r)
  \/ \E r \in 1..Len(runs) : HandleFailure(r)
  \/ \E r \in 1..Len(runs) : HandleError(r)
  \/ \E r \in 1..Len(runs) : DeadLetter(r)
  \/ \E r \in 1..Len(runs) : RetryScheduled(r)
  \/ \E r \in 1..Len(runs) : Finish(r)
  \/ Tick(MaxTime)

SpecSettle == Init /\ [][NextSettle]_vars

\* awaited processItem calls with breaker cooldowns passing between them:
\* every run returns before its deadline, so no timer fires
InitBreaker == InitWith({c \in Configs : c.maxRetries = MaxRetriesCfg /\ c.maxConcurrent = MaxConcurrentCfg})

NextBreaker ==
  \/ /\ NewId \in Ids
     /\ Enqueue(NewId, "undefined", 1, MaxEngineObjs)
  \/ \E o \in ObjRefs : AllReturned /\ ProcessItem(o, MaxBreakerRuns)
  \/ \E r \in 1..Len(runs) : Invoke(r)
  \/ \E r \in 1..Len(runs), out \in Outcomes : Settle(r, out)
  \/ \E r \in 1..Len(runs) : Complete(r)
  \/ \E r \in 1..Len(runs) : Deliver(r)
  \/ \E r \in 1..Len(runs) : HandleFailure(r)
  \/ \E r \in 1..Len(runs) : HandleError(r)
  \/ \E r \in 1..Len(runs) : DeadLetter(r)
  \/ \E r \in 1..Len(runs) : RetryScheduled(r)
  \/ \E r \in 1..Len(runs) : Finish(r)
  \/ AllReturned /\ Elapse(MaxElapses * (BreakerTimeoutMs \div 2))

SpecBreaker == InitBreaker /\ [][NextBreaker]_vars

\* the engine driven by the poll loop of a QueueInstance, with an operator
\* who pauses and resumes it
NextPoll ==
  \/ /\ NewId \in Ids
     /\ Enqueue(NewId, "undefined", 1, MaxEngineObjs)
  \/ \E id \in Ids : Requeue(id)
  \/ UseProcessor
  \/ Start
  \/ Stop
  \/ \E k \in 1..Len(loop.tasks) : LoopWake(k)
  \/ \E k \in 1..Len(loop.tasks) : LoopPoll(k)
  \/ \E k \in 1..Len(loop.tasks) : LoopDispatch(k, MaxRuns)
  \/ \E flag \in BOOLEAN : StoragePause(flag)
  \/ EngineSteps
  \/ Tick(MaxTime)

SpecPoll == Init /\ [][NextPoll]_vars

\* the poll loop with a processor that takes longer than the poll interval
\* and a deadline no run reaches
BusyConfigs ==
  [maxRetries : {MaxRetriesCfg}, backoffBaseMs : {TickMs},
   maxConcurrent : 1..MaxConcurrentCfg, timeoutMs : {MaxTime + TickMs}]

InitBusy == InitWith(BusyConfigs)

NextBusy ==
  \/ /\ NewId \in Ids
     /\ Enqueue(NewId, "undefined", 1, MaxObjs)
  \/ UseProcessor
  \/ Start
  \/ \E k \in 1..Len(loop.tasks) : LoopWake(k)
  \/ \E k \in 1..Len(loop.tasks) : LoopPoll(k)
  \/ \E k \in 1..Len(loop.tasks) : LoopDispatch(k, MaxObjs)
  \/ \E r \in 1..Len(runs) : Invoke(r)
  \/ \E r \in 1..Len(runs) : Settle(r, "success")
  \/ \E r \in 1..Len(runs) : Complete(r)
  \/ \E r \in 1..Len(runs) : Deliver(r)
  \/ Tick(MaxTime)

SpecBusy == InitBusy /\ [][NextBusy]_vars

\* ---------------------------------------------------- the storage alone

\* metadata a client passes to storage.enqueueOnce at time t: none; any
\* status; a retry gate or an expiry one tick after the start
DirectMetas(t) ==
  {[given |-> FALSE, attempts |-> 0, status |-> "queued", queuedAt |-> t,
    nextAttemptAt |-> None, expiresAt |-> None]}
  \cup {[given |-> TRUE, attempts |-> 0, status |-> st, queuedAt |-> t,
         nextAttemptAt |-> None, expiresAt |-> None] : st \in Statuses \ {"queued"}}
  \cup {[given |-> TRUE, attempts |-> 0, status |-> "queued", queuedAt |-> t,
         nextAttemptAt |-> TickMs, expiresAt |-> None],
        [given |-> TRUE, attempts |-> 0, status |-> "queued", queuedAt |-> t,
         nextAttemptAt |-> None, expiresAt |-> TickMs]}

\* the storage alone: no engine runs, one configuration
InitStorage == InitWith({c \in Configs : c.maxRetries = MaxRetriesCfg /\ c.maxConcurrent = MaxConcurrentCfg})

\* producers fill the store, a client dequeues
NextDequeue ==
  \/ \E p \in Priorities :
       /\ NewId \in Ids
       /\ Enqueue(NewId, p, 1, MaxObjs)
  \/ \E m \in DirectMetas(now) :
       /\ NewId \in Ids
       /\ StEnqueueOnce(NewId, "undefined", 1, m, MaxObjs)
  \/ \E limit \in 1..MaxObjs : Dequeue(limit)
  \/ Tick(MaxTime)

SpecDequeue == InitStorage /\ [][NextDequeue]_vars

OnceIds == 1..MaxOnceIds

\* metadata with which a client overrides the defaults of enqueueOnce
OverrideMetas(t) ==
  {[given |-> FALSE, attempts |-> 0, status |-> "queued", queuedAt |-> t,
    nextAttemptAt |-> None, expiresAt |-> None],
   [given |-> TRUE, attempts |-> 1, status |-> "failed", queuedAt |-> t,
    nextAttemptAt |-> None, expiresAt |-> None]}

\* producers compete with enqueueOnce for the same ids
NextOnce ==
  \/ \E id \in OnceIds, d \in Datas, e \in {None, TickMs} :
       EnqueueOnce(id, "high", d, e, MaxObjs)
  \/ \E id \in OnceIds, d \in Datas, m \in OverrideMetas(now) :
       StEnqueueOnce(id, "undefined", d, m, MaxObjs)
  \/ \E k \in 1..Len(once) : OnceReturn(k)
  \/ \E id \in OnceIds, st \in Statuses : SetStatus(id, st)

SpecOnce == InitStorage /\ [][NextOnce]_vars

\* ------------------------------------------------------ the backoff alone

BackoffConfigs ==
  [maxRetries : {MaxAttempts + 1}, backoffBaseMs : {100 * k : k \in 1..MaxBaseUnits},
   maxConcurrent : {1}, timeoutMs : {TickMs \div 2}]

\* handleFailure applied to an item that has failed attempt - 1 times: the
\* delay between the failure and the nextAttemptAt it sets
Backoff(attempt) ==
  LET item == [NewItem(1, "normal", 1, 0, None) EXCEPT !.attempts = attempt - 1,
                                                      !.status = "processing"]
      h == handleFailure(<<item>>, <<1>>, 1, config.maxRetries, config.backoffBaseMs, now)
  IN /\ ret' = [op |-> "handleFailure", attempts |-> h.objs[1].attempts,
                delay |-> h.objs[1].nextAttemptAt - now]
     /\ UNCHANGED <<now, config, objs, items, storagePaused, paused, processing, runs,
                    breaker, stats, emitted, tracked, loop, sweep, once>>

InitBackoff == InitWith(BackoffConfigs)

NextBackoff == \E attempt \in 1..MaxAttempts : Backoff(attempt)

SpecBackoff == InitBackoff /\ [][NextBackoff]_vars

\* =============================================================== properties

\* runs whose processor has been invoked and has not settled
Invocations(id) == {r \in 1..Len(runs) : runs[r].id = id /\ runs[r].pc = "running"}

\* C1: at no instant are two invocations of the processor running for the
\* same item id, whatever the interleaving of direct processItem calls,
\* deadline-timer firings, stuck sweeps and re-queues
C1_AtMostOneInvocationPerId == \A id \in Ids : Cardinality(Invocations(id)) <= 1

\* C2: a processItem call made while the item's id is in the in-flight set
\* is a no-op: no run is started (no processor invocation, no timer), and
\* the item objects, the store, the stats, the events and the in-flight
\* entry and timer of the first call stay as they were
C2_SecondCallIsNoOp ==
  [][(ret'.op = "processItem" /\ processing[objs[ret'.obj].id] # 0)
       => /\ runs' = runs
          /\ processing' = processing
          /\ objs' = objs
          /\ items' = items
          /\ stats' = stats
          /\ emitted' = emitted
          /\ tracked' = tracked
          /\ breaker' = breaker]_vars

\* a second processItem call has returned while the first call's processor
\* is still running under its own entry and pending timer
C2_Witness ==
  /\ ret.op = "processItem"
  /\ ret.noop
  /\ \E r \in 1..Len(runs) :
       /\ runs[r].obj = ret.obj
       /\ runs[r].pc = "running"
       /\ runs[r].timer = "pending"
       /\ processing[runs[r].id] = r

\* the step in which run r funnels a failure into handleFailure: after the
\* processor resolved with success false, threw, or was rejected by the breaker
FailureStep(r) ==
  /\ runs[r].pc \in {"resolved", "threw"}
  /\ runs'[r].pc \in {"retry", "deadletter"}

\* C3: every funneled failure of a processItem run adds exactly 1 to the
\* item's attempts, and no other step does: in particular neither the
\* deadline timer (handleTimeout) nor the stuck-item sweep changes attempts
C3_AttemptsCountFailures ==
  [][\A o \in 1..Len(objs) :
       LET funneled == {r \in 1..Len(runs) : runs[r].obj = o /\ FailureStep(r)}
       IN objs'[o].attempts = objs[o].attempts + Cardinality(funneled)]_vars

\* an item that failed explicitly, by thrown errors and by a rejection of
\* the open breaker, and that also timed out and was swept as stuck
C3_Witness ==
  \E r \in 1..Len(runs) :
    /\ runs[r].result = "rejected"
    /\ runs[r].pc \in {"retry", "deadletter"}
    /\ objs[runs[r].obj].attempts = MaxSerialRuns
    /\ stats.samples >= 1
    /\ stats.totalErrors >= BreakerThreshold + 1
    /\ emitted[runs[r].id]["itemTimeout"] >= 1
    /\ emitted[runs[r].id]["itemStuck"] >= 1

\* itemUndeliverable events owed to item object o: one per failure from the
\* maxRetries-th on, less the failure whose event is still to be raised
UndeliverableDue(o) ==
  LET beyond == objs[o].attempts - config.maxRetries + 1
      pending == {r \in 1..Len(runs) : runs[r].obj = o /\ runs[r].pc = "deadletter"}
  IN (IF beyond > 0 THEN beyond ELSE 0) - Cardinality(pending)

\* C4: with maxRetries = N and a processor that never succeeds, a failure
\* that leaves attempts below N leaves the item queued; a failure that
\* brings attempts to N leaves the stored item undeliverable with error
\* "max_retries" (also when the failure was a thrown error), listed by
\* getDeadLetterItems; itemUndeliverable is raised once for the N-th failure
C4_RetryThenDeadLetter ==
  [][/\ \A r \in 1..Len(runs) :
          FailureStep(r) =>
            LET o == runs[r].obj
                a == objs'[o].attempts
                dead == StGetDeadLetterItems(objs', items', Len(items'))
            IN /\ a < config.maxRetries => objs'[o].status = "queued"
               /\ a >= config.maxRetries =>
                    /\ objs'[o].status = "undeliverable"
                    /\ objs'[o].error = "max_retries"
                    /\ \E k \in 1..Len(dead) : dead[k] = o
     /\ \A o \in 1..Len(objs') :
          emitted'[objs'[o].id]["itemUndeliverable"] = UndeliverableDue(o)']_vars

\* maxRetries = 2: the first failure was retried, the second one, a thrown
\* error, dead-lettered the item and the event was raised once
C4_Witness ==
  \E r \in 1..Len(runs) :
    LET o == runs[r].obj
    IN /\ config.maxRetries = MaxRetriesCfg
       /\ runs[r].pc = "handled"
       /\ runs[r].thrown
       /\ objs[o].attempts = config.maxRetries
       /\ objs[o].status = "undeliverable"
       /\ objs[o].error = "max_retries"
       /\ emitted[runs[r].id]["itemRetryScheduled"] = config.maxRetries - 1
       /\ emitted[runs[r].id]["itemUndeliverable"] = 1

RECURSIVE DoubledDelay(_, _)
\* the base delay doubled once per earlier attempt, never above 30 seconds
DoubledDelay(base, attempts) ==
  IF attempts = 1 THEN Min(base, 30000)
  ELSE Min(2 * DoubledDelay(base, attempts - 1), 30000)

\* the delays the documentation lists for backoffBaseMs = 1000
DelayTable == <<1000, 2000, 4000, 8000, 16000>>

\* C5: the retry delay is min(backoffBaseMs * 2^(attempts-1), 30000) ms for
\* the attempts value after the increment; for backoffBaseMs = 1000 it is
\* 1000, 2000, 4000, 8000, 16000 for attempts 1..5 and 30000 from 6 on; it
\* never decreases with attempts and never exceeds 30000
C5_BackoffDelay ==
  ret.op = "handleFailure" =>
    LET a == ret.attempts
        base == config.backoffBaseMs
    IN /\ ret.delay = DoubledDelay(base, a)
       /\ ret.delay <= 30000
       /\ a > 1 => ret.delay >= DoubledDelay(base, a - 1)
       /\ base = 1000 =>
            ret.delay = IF a <= Len(DelayTable) THEN DelayTable[a] ELSE 30000

\* the sixth failure with backoffBaseMs = 1000 is delayed by the cap
C5_Witness ==
  /\ ret.op = "handleFailure"
  /\ config.backoffBaseMs = 1000
  /\ ret.attempts = 6
  /\ ret.delay = 30000

\* C6: every item dequeue returns is, at the time of the call, of status
\* queued with nextAttemptAt unset or not after now and expiresAt unset or
\* after now: no item of another status, with a nextAttemptAt in the
\* future or with an expiresAt that has passed is returned
C6_DequeuedAreEligible ==
  ret.op = "dequeue" =>
    \A k \in 1..Len(ret.result) :
      LET o == objs[ret.result[k]]
      IN /\ o.status \notin {"processing", "failed", "delivered", "undeliverable", "cancelled"}
         /\ ~(o.nextAttemptAt # None /\ o.nextAttemptAt > now)
         /\ ~(o.expiresAt # None /\ o.expiresAt <= now)

\* dequeue returned an item whose nextAttemptAt is now and left out an item
\* that expires now and an item that is not queued
C6_Witness ==
  /\ ret.op = "dequeue"
  /\ \E k \in 1..Len(ret.result) : objs[ret.result[k]].nextAttemptAt = now
  /\ \E k \in 1..Len(items) : objs[items[k]].expiresAt = now
  /\ \E k \in 1..Len(items) : objs[items[k]].status # "queued"

\* the priority tiers in the order the documentation gives them
Rank(priority) == CASE priority = "high" -> 1 [] priority = "normal" -> 2 [] priority = "low" -> 3

\* item a is due strictly before item b
Before(a, b) ==
  \/ Rank(a.priority) < Rank(b.priority)
  \/ Rank(a.priority) = Rank(b.priority) /\ a.queuedAt < b.queuedAt

\* the stored items a dequeue at the present time may return
Ready ==
  {items[k] : k \in {j \in 1..Len(items) :
     /\ objs[items[j]].status = "queued"
     /\ objs[items[j]].nextAttemptAt \in {None} \cup 0..now
     /\ objs[items[j]].expiresAt = None \/ objs[items[j]].expiresAt > now}}

\* C7: dequeue(limit) returns the first min(limit, n) of the n eligible
\* items in the order of priority rank, then queuedAt ascending: the result
\* has that length, holds eligible items only, each once, in that order,
\* and no eligible item left out is due before a returned one
C7_DequeueOrder ==
  ret.op = "dequeue" =>
    LET res == ret.result
        returned == {res[k] : k \in 1..Len(res)}
    IN /\ Len(res) = Min(ret.limit, Cardinality(Ready))
       /\ returned \subseteq Ready
       /\ Cardinality(returned) = Len(res)
       /\ \A i, j \in 1..Len(res) : i < j => ~Before(objs[res[j]], objs[res[i]])
       /\ \A x \in Ready \ returned : \A k \in 1..Len(res) : ~Before(objs[x], objs[res[k]])

\* B (normal, earliest), A (high) and C (high, latest) were stored in that
\* order and dequeue(3) returned A, C, B
C7_Witness ==
  /\ ret.op = "dequeue"
  /\ ret.limit = 3
  /\ Len(items) = 3
  /\ ret.result = <<items[2], items[3], items[1]>>
  /\ objs[items[1]].priority = "normal"
  /\ objs[items[2]].priority = "high"
  /\ objs[items[3]].priority = "high"
  /\ objs[items[1]].queuedAt < objs[items[2]].queuedAt
  /\ objs[items[2]].queuedAt < objs[items[3]].queuedAt

\* C8: with one high-priority item in an otherwise empty store, a first
\* dequeue(1) returns the item and a second dequeue(1) made immediately
\* afterwards returns an empty list
C8_SecondDequeueEmpty ==
  [][(/\ ret.op = "dequeue"
      /\ ret.limit = 1
      /\ Len(items) = 1
      /\ objs[items[1]].priority = "high"
      /\ ret.result = <<items[1]>>
      /\ ret'.op = "dequeue"
      /\ ret'.limit = 1)
       => ret'.result = <<>>]_vars

\* C9: an enqueueOnce call with an id the store holds returns false and
\* leaves the store as it was, whatever the status of the stored item; a
\* call with an id the store does not hold returns true and stores the
\* item with status queued and attempts 0
C9_EnqueueOnceContract ==
  [][Len(once') = Len(once) + 1 =>
       LET e == once'[Len(once')]
       IN IF Has(objs, items, e.id)
          THEN ~e.result /\ objs' = objs /\ items' = items
          ELSE /\ e.result
               /\ Has(objs', items', e.id)
               /\ objs'[Get(objs', items', e.id)].data = e.data
               /\ objs'[Get(objs', items', e.id)].status = "queued"
               /\ objs'[Get(objs', items', e.id)].attempts = 0]_vars

\* the enqueueOnce calls made with id
CallsFor(id) == {k \in 1..Len(once) : once[k].id = id}

\* C10: enqueueOnce is an atomic check-and-insert: of the calls made with
\* one id on a store that did not hold it, however they interleave, the
\* first returns true, the stored item is the one that call built, and every
\* other call returns false
C10_ExactlyOneWins ==
  \A id \in OnceIds :
    CallsFor(id) # {} =>
      LET first == CHOOSE k \in CallsFor(id) : \A j \in CallsFor(id) : k <= j
      IN ~once[first].had =>
           /\ {k \in CallsFor(id) : once[k].result} = {first}
           /\ Has(objs, items, id)
           /\ Get(objs, items, id) = once[first].obj
           /\ objs[once[first].obj].data = once[first].data
           /\ \A k \in CallsFor(id) \ {first} : ~once[k].result /\ once[k].pc = "returned"

\* a second call with the same id and another payload has returned false
\* while the first call is still suspended at its await, and the stored
\* payload is the first call's
C10_Witness ==
  /\ Len(once) >= 2
  /\ once[1].pc = "enqueued"
  /\ once[2].id = once[1].id
  /\ once[2].data # once[1].data
  /\ ~once[2].result
  /\ once[2].pc = "returned"
  /\ objs[Get(objs, items, once[1].id)].data = once[1].data

\* the step in which poll task k calls storage.dequeue
DequeueStep(k) ==
  /\ k <= Len(loop'.tasks)
  /\ loop.tasks[k].pc = "isPaused"
  /\ loop'.tasks[k].pc = "dequeue"

\* the step in which poll task k hands its dequeued items to processItem
DispatchStep(k) ==
  /\ k <= Len(loop'.tasks)
  /\ loop.tasks[k].pc = "dequeue"
  /\ loop'.tasks[k].pc = "scheduled"

\* C11: from the moment pause() has set the storage flag until resume() is
\* called, the poll loop calls no dequeue and dispatches no item
C11_NoDequeueWhilePaused ==
  [][(storagePaused /\ storagePaused')
       => \A k \in 1..Len(loop.tasks) :
            /\ ~DequeueStep(k)
            /\ ~(DispatchStep(k) /\ runs' # runs)]_vars

\* the step in which a poll tick begins on task k: the timer set by
\* setTimeout(loop, pollInterval) calls loop()
TickBegins(k) ==
  /\ loop.tasks[k].pc = "scheduled"
  /\ \/ loop'.tasks = RemoveAt(loop.tasks, k)
     \/ /\ Len(loop'.tasks) = Len(loop.tasks)
        /\ loop'.tasks[k] # loop.tasks[k]

\* C12: a poll tick that begins while running is false (after stop(), start()
\* not called again) returns at once: it calls neither isPaused nor dequeue,
\* dispatches nothing and does not reschedule itself; stop() itself leaves
\* the processItem runs, the in-flight set and the items as they are
C12_StopEndsPolling ==
  [][/\ (~loop.running /\ ~loop'.running) =>
          \A k \in 1..Len(loop.tasks) :
            TickBegins(k) =>
              /\ loop'.tasks = RemoveAt(loop.tasks, k)
              /\ runs' = runs
              /\ objs' = objs
              /\ processing' = processing
     /\ (loop.running /\ ~loop'.running) =>
          /\ runs' = runs
          /\ objs' = objs
          /\ processing' = processing
          /\ loop'.tasks = loop.tasks]_vars

\* after stop() the tick that was scheduled has returned without
\* rescheduling, and a run dispatched before stop() has had its processor
\* settle and is applying the outcome
C12_Witness ==
  /\ loop.processor
  /\ ~loop.running
  /\ loop.tasks = <<>>
  /\ \E r \in 1..Len(runs) : runs[r].pc = "completing"

\* Queue.processing as a set of ids; getStats().currentlyProcessing is its size
InFlight == {id \in Ids : processing[id] # 0}

\* C13: a poll tick dequeues up to maxConcurrent eligible items whatever the
\* number of items in flight, and dispatches every one of them, so the
\* in-flight set is not bounded by maxConcurrent
C13_TickIgnoresInFlight ==
  [][\A k \in 1..Len(loop.tasks) :
       /\ DequeueStep(k) =>
            Len(loop'.tasks[k].items) = Min(config.maxConcurrent, Cardinality(Ready))
       /\ DispatchStep(k) =>
            InFlight' = InFlight \cup {objs[loop.tasks[k].items[j]].id :
                                         j \in 1..Len(loop.tasks[k].items)}]_vars

\* more items are in flight than maxConcurrent, each with its processor
\* still running, after a later tick dispatched on top of an earlier one
C13_Witness ==
  /\ Cardinality(InFlight) > config.maxConcurrent
  /\ \A id \in InFlight : runs[processing[id]].pc = "running"
  /\ now >= PollIntervalMs

\* the breaker has counted 5 failures or more, the last one less than
\* 30000 ms ago
BreakerOpen == breaker.failures >= 5 /\ now - breaker.lastFailure < 30000

\* the step in which the execute call of run r gets past its isOpen check
ExecuteStep(r) == runs[r].pc = "updating" /\ runs'[r].pc # "updating"

\* C14: while the breaker is open, execute throws without invoking fn: the
\* run is rejected, the breaker keeps its count, and no run of the Queue
\* has its processor invoked
C14_OpenBreakerRejects ==
  [][BreakerOpen =>
       \A r \in 1..Len(runs) :
         /\ ExecuteStep(r) =>
              /\ runs'[r].pc = "threw"
              /\ runs'[r].result = "rejected"
              /\ breaker' = breaker
         /\ runs[r].pc # "running" => runs'[r].pc # "running"]_vars

\* a run was rejected by the open breaker
C14_Witness ==
  /\ BreakerOpen
  /\ \E r \in 1..Len(runs) : runs[r].pc = "threw" /\ runs[r].result = "rejected"

\* the breaker has counted 5 failures or more and 30000 ms or more have
\* passed since the last one
CooledDown == breaker.failures >= 5 /\ now - breaker.lastFailure >= 30000

\* C15: there is no half-open state: the passing of the cooldown leaves the
\* count as it is, the next execute call invokes fn although the count is
\* still 5 or more, a failure of a call made with such a count opens the
\* breaker again at once, and a success sets the count to 0
C15_NoHalfOpen ==
  [][/\ now' # now => breaker' = breaker
     /\ \A r \in 1..Len(runs) :
          /\ (CooledDown /\ ExecuteStep(r)) =>
               runs'[r].pc = "running" /\ breaker' = breaker
          /\ (breaker.failures >= 5 /\ runs[r].pc = "running" /\ runs'[r].pc = "threw") =>
               /\ breaker'.failures = breaker.failures + 1
               /\ BreakerOpen'
          /\ (runs[r].pc = "running" /\ runs'[r].pc = "resolved") =>
               breaker'.failures = 0]_vars

\* after the cooldown a call was let through with the count at 5, failed and
\* brought it to 6, and the call after it was rejected
C15_Witness ==
  /\ breaker.failures = BreakerThreshold + 1
  /\ now >= BreakerTimeoutMs
  /\ \E r \in 1..Len(runs) : runs[r].pc = "threw" /\ runs[r].result = "rejected"

\* the step in which the deadline timer of run r fires
TimerFires(r) == runs[r].timer = "pending" /\ runs'[r].timer = "fired"

\* the step in which the handleTimeout call of run r returns
TimeoutReturns(r) == runs[r].tpc = "updating" /\ runs'[r].tpc # "updating"

\* the step in which the processItem call of run r returns
RunCompletes(r) == runs[r].pc # "done" /\ runs'[r].pc = "done"

\* C16: when the deadline timer of a run fires, the stored status becomes
\* failed and attempts and totalErrors stay; when its handleTimeout returns,
\* itemTimeout has been raised once more and the id is out of the in-flight
\* set; itemTimeout is raised by nothing else; a run that completes with its
\* timer pending cancels it, and a cancelled timer never fires
C16_TimeoutPath ==
  [][/\ \A r \in 1..Len(runs) :
          /\ TimerFires(r) =>
               /\ runs'[r].tpc = "updating"
               /\ objs'[Get(objs', items', runs[r].id)].status = "failed"
               /\ objs'[runs[r].obj].attempts = objs[runs[r].obj].attempts
               /\ stats' = stats
               /\ emitted' = emitted
          /\ TimeoutReturns(r) =>
               /\ emitted' = Emit(emitted, runs[r].id, "itemTimeout")
               /\ processing'[runs[r].id] = 0
               /\ objs' = objs
               /\ stats' = stats
          /\ RunCompletes(r) => runs'[r].timer # "pending"
          /\ runs[r].timer \in {"cleared", "none"} => runs'[r].timer \in {"cleared", "none"}
          /\ runs[r].timer = "fired" => runs'[r].timer \in {"fired", "none"}
     /\ \A id \in Ids :
          emitted'[id]["itemTimeout"] # emitted[id]["itemTimeout"] =>
            \E r \in 1..Len(runs) : runs[r].id = id /\ TimeoutReturns(r)]_vars

\* the timer of a run fired while its processor was running: the stored
\* status is failed, itemTimeout was raised once, the id is not in flight,
\* attempts and totalErrors are 0, and the processor is still running
C16_Witness ==
  \E r \in 1..Len(runs) :
    /\ runs[r].pc = "running"
    /\ runs[r].timer = "fired"
    /\ runs[r].tpc = "done"
    /\ objs[Get(objs, items, runs[r].id)].status = "failed"
    /\ emitted[runs[r].id]["itemTimeout"] = 1
    /\ processing[runs[r].id] = 0
    /\ objs[runs[r].obj].attempts = 0
    /\ stats.totalErrors = 0

\* C17: when a processItem run completes, by success, explicit failure,
\* thrown error or breaker rejection, its id is not in the in-flight set and
\* its deadline timer is not pending; once every run has completed
\* currentlyProcessing is 0
C17_CompletionClears ==
  [][/\ \A r \in 1..Len(runs) :
          RunCompletes(r) =>
            /\ processing'[runs[r].id] = 0
            /\ runs'[r].timer # "pending"
     /\ AllReturned' => Cardinality(InFlight') = 0]_vars

\* runs have completed by success, by explicit failure, by five thrown
\* errors and by a rejection of the breaker those opened, and nothing is
\* in flight
C17_Witness ==
  /\ AllReturned
  /\ now = 0
  /\ \E id \in Ids : emitted[id]["itemDelivered"] >= 1
  /\ stats.samples >= 2
  /\ stats.totalErrors = BreakerThreshold + 1
  /\ Cardinality(InFlight) = 0

\* C18: the promise processItem returns always resolves: a processor that
\* throws or returns success false and a breaker rejection become a retry
\* or a dead-letter transition, never a rejection of processItem
C18_ProcessItemResolves == \A r \in 1..Len(runs) : runs[r].pc # "rejected"

\* C19: with the poll loop started, the store never paused, finitely many
\* items without expiresAt and a processor that always settles, every
\* enqueued item eventually has status delivered or undeliverable
C19_EveryItemSettles ==
  \A o \in 1..MaxLiveObjs :
     (o \in ObjRefs) ~> (/\ o \in ObjRefs
                          /\ objs[o].status \in {"delivered", "undeliverable"})

\* a step of processItem, of a deadline timer, of the sweep or of the poll loop
EngineStep == runs' # runs \/ sweep' # sweep \/ loop' # loop

AllowedTransitions ==
  {<<"queued", "processing">>, <<"processing", "delivered">>,
   <<"processing", "queued">>, <<"processing", "undeliverable">>,
   <<"processing", "failed">>}

\* C20: every change the engine makes to the stored status of an item is
\* queued->processing, processing->delivered, processing->queued,
\* processing->undeliverable or processing->failed
C20_OnlyListedTransitions ==
  [][EngineStep =>
       \A o \in ObjRefs :
          objs'[o].status # objs[o].status =>
            <<objs[o].status, objs'[o].status>> \in AllowedTransitions]_vars

\* the ids that were passed to processItem: processItem stamps lastAttemptAt
Dispatched == {objs[o].id : o \in {p \in ObjRefs : objs[p].lastAttemptAt # None}}

\* C21: totalProcessed counts each item id at most once, however many runs
\* the id goes through: it is the number of ids in the seen set, every one of
\* them an id that was passed to processItem, and a step adds at most 1
C21_ProcessedOncePerId ==
  [][/\ stats'.totalProcessed = Cardinality(stats'.seen)
     /\ stats'.seen \subseteq Dispatched'
     /\ stats'.totalProcessed <= Cardinality(Dispatched')
     /\ stats'.totalProcessed \in {stats.totalProcessed, stats.totalProcessed + 1}]_vars

\* one id went through several recorded runs and is counted once, and
\* totalErrors is greater than totalProcessed
C21_Witness ==
  /\ stats.totalProcessed = 1
  /\ stats.samples >= 3
  /\ stats.totalErrors > stats.totalProcessed

\* C22: totalErrors is incremented exactly once by each run that ends in an
\* explicit {success: false} result or in a thrown error, i.e. by every
\* funneled failure, and by nothing else
C22_ErrorsCountFailures ==
  [][stats'.totalErrors =
       stats.totalErrors + Cardinality({r \in 1..Len(runs) : FailureStep(r)})]_vars

\* C23: every completed processItem run, whether it ends in success, in an
\* explicit failure or in a thrown error, adds exactly one sample to the
\* processing-duration samples
C23_SamplePerRun ==
  [][stats'.samples =
       stats.samples + Cardinality({r \in 1..Len(runs) : RunCompletes(r)})]_vars

\* the attempts value stored for id: getItem(id).metadata.attempts
StoredAttempts(id) == objs[Get(objs, items, id)].attempts

\* C24: for every item id, the attempts value stored for the id never
\* decreases over enqueue, processItem, deadline-timer and sweep operations
C24_AttemptsNeverDecrease ==
  [][\A id \in Ids :
       Has(objs, items, id) =>
         /\ Has(objs', items', id)
         /\ StoredAttempts(id)' >= StoredAttempts(id)]_vars

\* the catch block of run r is entered: handleError is called
ThrownStep(r) == runs[r].pc = "threw" /\ runs'[r].pc # "threw"

\* C25: monitoring.trackError is invoked, and the error message is recorded
\* on the item, exactly once for each run that ends in a thrown error
\* (processor throw or breaker rejection) and never for a run whose
\* processor returns {success: false}
C25_TrackErrorPerThrow ==
  [][/\ \A id \in Ids :
          tracked'[id] = tracked[id]
             + Cardinality({r \in 1..Len(runs) : runs[r].id = id /\ ThrownStep(r)})
     /\ \A r \in 1..Len(runs) :
          /\ ThrownStep(r) /\ runs'[r].pc # "deadletter" =>
               objs'[runs[r].obj].error =
                 IF runs[r].result = "rejected" THEN CircuitOpenMessage ELSE ProcessorMessage
          /\ runs[r].pc = "resolved" /\ runs'[r].pc = "retry" =>
               objs'[runs[r].obj].error = objs[runs[r].obj].error]_vars

\* the breaker rejects run r: execute throws before calling the processor
Rejection(r) == runs[r].result # "rejected" /\ runs'[r].result = "rejected"

\* C26: a run rejected by the open breaker is funneled like a processor
\* failure: the processor is not invoked, and the rejection adds 1 to the
\* item's attempts and 1 to totalErrors
C26_RejectionConsumesAttempt ==
  [][\A r \in 1..Len(runs) :
       /\ Rejection(r) =>
            /\ runs[r].pc = "updating" /\ runs'[r].pc = "threw"
            /\ breaker' = breaker
       /\ runs[r].pc = "running" => runs[r].result # "rejected"
       /\ ThrownStep(r) /\ runs[r].result = "rejected" =>
            /\ objs'[runs[r].obj].attempts = objs[runs[r].obj].attempts + 1
            /\ stats'.totalErrors = stats.totalErrors + 1
            /\ runs'[r].pc \in {"retry", "deadletter"}]_vars

\* an item is undeliverable with reason max_retries although the processor
\* was never invoked for it: no run has succeeded or failed explicitly, every
\* thrown error the breaker counted belongs to other items, and all the
\* errors of this item are rejections
C26_Witness ==
  /\ AllReturned
  /\ stats.samples = 0
  /\ \E o \in ObjRefs :
       /\ objs[o].status = "undeliverable"
       /\ objs[o].error = MaxRetriesReason
       /\ objs[o].attempts = config.maxRetries
       /\ tracked[objs[o].id] = objs[o].attempts
       /\ breaker.failures = BreakerThreshold
       /\ stats.totalErrors = BreakerThreshold + objs[o].attempts

\* the status getItem(id) shows
StoredStatus(id) == objs[Get(objs, items, id)].status

\* C27: a deadline-timer firing does not cancel the processor invocation,
\* and the outcome of an invocation that settles after its timer fired is
\* still applied: a late success stores delivered and raises itemDelivered,
\* a late failure increments attempts and re-queues or dead-letters the item
C27_LateOutcomeApplied ==
  [][\A r \in 1..Len(runs) :
       LET id == runs[r].id
           o == runs[r].obj
           late == runs[r].timer = "fired"
       IN /\ TimerFires(r) =>
               /\ runs'[r].pc = runs[r].pc
               /\ runs'[r].result = runs[r].result
          /\ late /\ runs[r].pc = "resolved" /\ runs'[r].pc = "completing" =>
               StoredStatus(id)' = "delivered"
          /\ late /\ runs[r].pc = "completing" /\ RunCompletes(r) =>
               /\ objs'[o].status = "delivered"
               /\ emitted'[id]["itemDelivered"] = emitted[id]["itemDelivered"] + 1
          /\ late /\ FailureStep(r) =>
               /\ objs'[o].attempts = objs[o].attempts + 1
               /\ StoredStatus(id)' \in {"queued", "undeliverable"}]_vars

\* two runs whose timers fired while their processors were running: the
\* late failure of one has incremented attempts and re-queued or
\* dead-lettered its item, the late success of the other has stored delivered
C27_Witness ==
  \E r1, r2 \in 1..Len(runs) :
    /\ runs[r1].timer = "fired" /\ runs[r1].tpc = "done"
    /\ runs[r2].timer = "fired" /\ runs[r2].tpc = "done"
    /\ emitted[runs[r1].id]["itemTimeout"] >= 1
    /\ emitted[runs[r2].id]["itemTimeout"] >= 1
    /\ runs[r1].pc \in {"retry", "deadletter"}
    /\ objs[runs[r1].obj].attempts = 1
    /\ StoredStatus(runs[r1].id) \in {"queued", "undeliverable"}
    /\ runs[r2].pc = "completing"
    /\ StoredStatus(runs[r2].id) = "delivered"

TerminalStatuses == {"delivered", "undeliverable"}

\* C28: delivered and undeliverable are terminal: once the stored status of
\* an item is delivered or undeliverable, no step of a processItem run, of a
\* deadline timer, of the sweep or of the poll loop changes its status, and
\* no poll tick dispatches it again
C28_TerminalStatuses ==
  [][EngineStep =>
       \A o \in ObjRefs :
          objs[o].status \in TerminalStatuses => objs'[o].status = objs[o].status]_vars

\* handleFailure of run r takes the retry branch on the object the store holds
RetryableFailure(r) ==
  /\ FailureStep(r)
  /\ runs'[r].pc = "retry"
  /\ Get(objs, items, runs[r].id) = runs[r].obj

\* C29: after a retryable failure the store shows the item queued with the
\* incremented attempts and nextAttemptAt = failure time + backoff,
\* itemRetryScheduled is raised when handleFailure returns, and no poll tick
\* dispatches a queued item before its nextAttemptAt
C29_RetryScheduled ==
  [][/\ \A r \in 1..Len(runs) :
          LET id == runs[r].id
              stored == objs[Get(objs, items, id)]
          IN /\ RetryableFailure(r) =>
                  /\ stored'.status = "queued"
                  /\ stored'.attempts = stored.attempts + 1
                  /\ stored'.attempts < config.maxRetries
                  /\ stored'.nextAttemptAt =
                       now + calculateBackoff(config.backoffBaseMs, stored'.attempts)
             /\ runs[r].pc = "retry" /\ runs'[r].pc # "retry" =>
                  emitted'[id]["itemRetryScheduled"] = emitted[id]["itemRetryScheduled"] + 1
     /\ \A o \in ObjRefs :
          loop' # loop /\ objs[o].status = "queued" /\ objs'[o].status = "processing" =>
             objs[o].nextAttemptAt = None \/ objs[o].nextAttemptAt <= now]_vars

\* an item that failed once, was re-queued with a retry time, raised
\* itemRetryScheduled and was dispatched again by a poll tick no earlier
\* than that time
C29_Witness ==
  \E o \in ObjRefs :
    /\ objs[o].attempts = 1
    /\ objs[o].nextAttemptAt # None
    /\ emitted[objs[o].id]["itemRetryScheduled"] = 1
    /\ objs[o].status = "processing"
    /\ objs[o].lastAttemptAt >= objs[o].nextAttemptAt
    /\ processing[objs[o].id] # 0

\* C30: an item whose processor never settles is never dead-lettered, each
\* timeout leaves its attempts unchanged, and after each timeout the item is
\* dispatched again
C30_HangingItemRetriedForever ==
  \A o \in 1..MaxLiveObjs :
     /\ [](o \in ObjRefs => objs[o].status # "undeliverable" /\ objs[o].attempts = 0)
     /\ (o \in ObjRefs /\ objs[o].status = "failed")
           ~> (o \in ObjRefs /\ objs[o].status = "processing")

\* the stored items a sweep that queries now has to mark
StuckNow ==
  {o \in ObjRefs : /\ \E k \in 1..Len(items) : items[k] = o
                   /\ objs[o].status = "processing"
                   /\ objs[o].lastAttemptAt # None
                   /\ objs[o].lastAttemptAt < now - 2 * config.timeoutMs}

\* a step of the sweep changes at most the status of target, to failed
SweepTouchesOnly(target) ==
  /\ processing' = processing
  /\ stats' = stats
  /\ runs' = runs
  /\ Len(objs') = Len(objs)
  /\ \A o \in ObjRefs :
        IF o \in target THEN objs'[o] = [objs[o] EXCEPT !.status = "failed"]
        ELSE objs'[o] = objs[o]

\* C31: a sweep run collects exactly the stored items that are processing
\* with a lastAttemptAt earlier than now - 2*timeoutMs, each once; it then
\* sets each collected item to failed and raises itemStuck once for it, in
\* list order; no step of the sweep changes attempts, totalErrors, the
\* in-flight set or an item that was not collected
C31_SweepMarksStuck ==
  [][/\ (sweep.pc = "idle" /\ sweep' # sweep) =>
          /\ sweep'.pc = "found"
          /\ {sweep'.list[k] : k \in 1..Len(sweep'.list)} = StuckNow
          /\ Len(sweep'.list) = Cardinality(StuckNow)
          /\ StuckNow # {}
          /\ SweepTouchesOnly({})
          /\ emitted' = emitted
     /\ (sweep.pc = "found" /\ sweep' # sweep) =>
          /\ sweep' = [pc |-> "marked", list |-> sweep.list]
          /\ SweepTouchesOnly({Head(sweep.list)})
          /\ emitted' = emitted
     /\ (sweep.pc = "marked" /\ sweep' # sweep) =>
          /\ emitted' = Emit(emitted, objs[Head(sweep.list)].id, "itemStuck")
          /\ IF Tail(sweep.list) = <<>>
             THEN sweep' = [pc |-> "idle", list |-> <<>>] /\ SweepTouchesOnly({})
             ELSE /\ sweep' = [pc |-> "marked", list |-> Tail(sweep.list)]
                  /\ SweepTouchesOnly({Head(Tail(sweep.list))})
    ]_vars

\* a sweep has marked the one stuck item failed and has left alone a second
\* item that is processing since a more recent time
C31_Witness ==
  /\ sweep.pc = "marked"
  /\ Len(sweep.list) = 1
  /\ objs[Head(sweep.list)].status = "failed"
  /\ \E o \in ObjRefs : /\ o # Head(sweep.list)
                        /\ objs[o].status = "processing"
                        /\ objs[o].lastAttemptAt # None
                        /\ objs[o].attempts = 0

\* the step in which the processor of run r settles inside execute
FnSettles(r) == runs[r].pc = "running" /\ runs'[r].pc # "running"

\* C32: execute changes the failure count only when fn settles. When fn
\* resolves, with success true or with success false, the count becomes 0
\* and the last-failure time stays; when fn rejects, the count grows by
\* exactly 1, the last-failure time becomes now and the catch block of
\* processItem receives the error fn rejected with; after an explicit
\* failure the breaker is therefore not open
C32_CountFollowsSettlement ==
  [][/\ breaker' # breaker => \E r \in 1..Len(runs) : FnSettles(r)
     /\ \A r \in 1..Len(runs) :
          FnSettles(r) =>
            \/ /\ runs'[r].pc = "resolved"
               /\ runs'[r].result \in {"success", "fail"}
               /\ breaker' = [failures |-> 0, lastFailure |-> breaker.lastFailure]
               /\ ~(breaker'.failures >= 5 /\ now - breaker'.lastFailure < 30000)
            \/ /\ runs'[r].pc = "threw"
               /\ runs'[r].result = "throw"
               /\ breaker' = [failures |-> breaker.failures + 1, lastFailure |-> now]
    ]_vars

\* four calls in which fn rejected, and none in which it resolved, were
\* followed by a call in which fn resolved with success false, and the
\* count is back at 0
C32_Witness ==
  /\ stats.totalErrors = 4
  /\ stats.samples = 0
  /\ \E r \in 1..Len(runs) : runs[r].pc = "resolved" /\ runs[r].result = "fail"
  /\ breaker.failures = 0

\* C33: the two pause switches are independent. A step that changes the
\* engine flag changes nothing else, a step that changes the storage flag
\* leaves the engine flag alone, and isPaused returns the storage flag. A
\* poll tick reads the storage flag only: it calls dequeue exactly when that
\* flag was clear, whatever the engine flag is, and every item it dequeued
\* gets its processItem run
C33_IndependentSwitches ==
  [][/\ paused' # paused =>
          UNCHANGED <<now, config, objs, items, storagePaused, processing, runs,
                      breaker, stats, emitted, tracked, loop, sweep, once>>
     /\ storagePaused' # storagePaused =>
          UNCHANGED <<now, config, objs, items, paused, processing, runs,
                      breaker, stats, emitted, tracked, loop, sweep, once>>
     /\ (ret'.op = "isPaused" /\ ret' # ret) =>
          /\ ret'.result = storagePaused
          /\ UNCHANGED <<storagePaused, paused>>
     /\ Len(loop'.tasks) >= Len(loop.tasks) =>
          \A k \in 1..Len(loop'.tasks) :
            /\ ((k > Len(loop.tasks) \/ loop.tasks[k].pc = "scheduled")
                  /\ loop'.tasks[k].pc = "isPaused") =>
                 loop'.tasks[k].wasPaused = storagePaused
            /\ (k <= Len(loop.tasks) /\ loop.tasks[k].pc = "isPaused"
                  /\ loop'.tasks[k] # loop.tasks[k]) =>
                 IF loop.tasks[k].wasPaused
                 THEN loop'.tasks[k].pc = "scheduled"
                 ELSE /\ loop'.tasks[k].pc = "dequeue"
                      /\ loop'.tasks[k].items = StDequeue(objs, items, config.maxConcurrent, now)
            /\ (k <= Len(loop.tasks) /\ DispatchStep(k)) =>
                 \A i \in 1..Len(loop.tasks[k].items) :
                    processing'[objs[loop.tasks[k].items[i]].id] # 0
    ]_vars

\* with the engine flag set and the storage flag clear, a poll tick has
\* dequeued an item and its processItem run has begun
C33_Witness ==
  /\ paused
  /\ ~storagePaused
  /\ \E r \in 1..Len(runs) : runs[r].pc = "updating" /\ objs[runs[r].obj].status = "processing"

\* C34: at most one chain of poll ticks is scheduled or running
C34_SingleChain == Len(loop.tasks) <= 1

\* C35: a call that execute rejects leaves the failure count and the
\* last-failure time as they are; the last-failure time moves only when an
\* invoked fn rejects, and then to now; and a call made 30000 ms or more
\* after the last-failure time is let through to fn
C35_RejectionsDoNotProlong ==
  [][/\ \A r \in 1..Len(runs) :
          /\ (ExecuteStep(r) /\ runs'[r].result = "rejected") => breaker' = breaker
          /\ (ExecuteStep(r) /\ now - breaker.lastFailure >= 30000) =>
               runs'[r].pc = "running" /\ runs'[r].result = "none"
     /\ breaker'.lastFailure # breaker.lastFailure =>
          /\ breaker'.lastFailure = now
          /\ \E r \in 1..Len(runs) : FnSettles(r) /\ runs'[r].pc = "threw"
    ]_vars

\* five invoked calls failed, two calls were rejected while the breaker was
\* open, and a call made when the cooldown since the fifth failure had
\* passed has reached fn
C35_Witness ==
  /\ breaker.failures = 5
  /\ stats.totalErrors = 7
  /\ now - breaker.lastFailure >= 30000
  /\ \E r \in 1..Len(runs) : runs[r].pc = "running"

RunExits(r) == runs[r].pc \notin {"done", "rejected"} /\ runs'[r].pc \in {"done", "rejected"}

\* C37: the in-flight entry of a run is removed only in the step in which
\* that run's processItem call returns or its own handleTimeout returns, and
\* its pending deadline timer is cancelled only in the step in which that
\* run's processItem call returns
C37_OwnExitOnly ==
  [][\A r \in 1..Len(runs) :
       runs[r].id \in Ids =>
         /\ (processing[runs[r].id] = r /\ processing'[runs[r].id] # r) =>
              RunExits(r) \/ TimeoutReturns(r)
         /\ (runs[r].timer = "pending" /\ runs'[r].timer = "cleared") =>
              RunExits(r)
    ]_vars

\* the processItem runs of item object o that have not returned
RunsInProgress(o) ==
  {r \in 1..Len(runs) : runs[r].obj = o /\ runs[r].pc \notin {"done", "rejected"}}

OutcomeEvents(id) ==
  emitted[id]["itemDelivered"] + emitted[id]["itemRetryScheduled"]
    + emitted[id]["itemUndeliverable"]

\* C39: with awaited processItem calls on the one item of the store, when
\* every call has settled the item has one outcome event (itemDelivered,
\* itemRetryScheduled or itemUndeliverable) per run that was not a no-op;
\* and itemDelivered is raised only when the store already holds the item
\* as delivered
C39_OneOutcomeEventPerRun ==
  [][/\ AllReturned' =>
          \A id \in Ids : Has(objs', items', id) => OutcomeEvents(id)' = Len(runs')
     /\ \A id \in Ids :
          emitted'[id]["itemDelivered"] # emitted[id]["itemDelivered"] =>
            /\ emitted'[id]["itemDelivered"] = emitted[id]["itemDelivered"] + 1
            /\ StoredStatus(id) = "delivered"
    ]_vars

\* item object o is queued and its expiresAt has passed
Expired(o) ==
  /\ objs[o].status = "queued"
  /\ objs[o].expiresAt # None
  /\ objs[o].expiresAt <= now

\* C40: once a queued item has expired, no step of the engine changes it
\* (it stays queued, with its attempts), no dequeue of a poll tick returns
\* it and no processItem run is started for it; as the clock only advances,
\* this holds from then on
C40_ExpiredStaysQueued ==
  [][\A o \in ObjRefs :
       Expired(o) =>
         /\ objs'[o] = objs[o]
         /\ Expired(o)'
         /\ \A r \in 1..Len(runs') : r > Len(runs) => runs'[r].obj # o
         /\ \A k \in 1..Len(loop.tasks) :
              DequeueStep(k) =>
                \A j \in 1..Len(loop'.tasks[k].items) : loop'.tasks[k].items[j] # o
    ]_vars

\* an item that was never dispatched has expired and is still queued, and a
\* poll tick that came after the expiry has dequeued another item instead
C40_Witness ==
  \E o \in ObjRefs :
    /\ Expired(o)
    /\ now > objs[o].expiresAt
    /\ objs[o].attempts = 0 /\ objs[o].lastAttemptAt = None
    /\ \E k \in 1..Len(loop.tasks) :
          /\ loop.tasks[k].pc = "dequeue"
          /\ Len(loop.tasks[k].items) = 1
          /\ loop.tasks[k].items[1] # o

====
